---- MODULE Spec2Model ----
(***************************************************************************)
(* Commute route refresh cycle of Lighthouse (backend/fetchers/traffic.py) *)
(* as a state machine: the persisted TrafficRoute table, the SQLAlchemy    *)
(* session of a running cycle (autoflush off), the settings that feed it   *)
(* and the provider responses it receives.                                 *)
(***************************************************************************)
EXTENDS Integers, Sequences, FiniteSets, TLC

\* ------------------------------------------------------------------ bounds
MaxRoutes == 2
MaxCycles == 2
MaxCandidates == 3
MaxSections == 3

\* ------------------------------------------------------- optional values
None == <<>>
Some(x) == <<x>>

\* Python truthiness of an optional float (None and 0.0 are falsy)
TruthyNum(v) == v # None /\ v[1] # 0

\* Python truthiness of an optional string (None and "" are falsy)
TruthyStr(v) == v # None /\ v[1] # ""

\* ------------------------------------------------------------ text
Char(s, i) == SubSeq(s, i, i)

Digits == {"0", "1", "2", "3", "4", "5", "6", "7", "8", "9"}

DigitVal(c) ==
  CASE c = "0" -> 0 [] c = "1" -> 1 [] c = "2" -> 2 [] c = "3" -> 3
    [] c = "4" -> 4 [] c = "5" -> 5 [] c = "6" -> 6 [] c = "7" -> 7
    [] c = "8" -> 8 [] c = "9" -> 9

\* str.strip() for blanks
RECURSIVE Strip(_)
Strip(s) ==
  IF s = "" THEN s
  ELSE IF Char(s, 1) = " " THEN Strip(SubSeq(s, 2, Len(s)))
  ELSE IF Char(s, Len(s)) = " " THEN Strip(SubSeq(s, 1, Len(s) - 1))
  ELSE s

\* first index >= i of s that holds no digit (Len(s) + 1 when none)
RECURSIVE SkipDigits(_, _)
SkipDigits(s, i) ==
  IF i <= Len(s) /\ Char(s, i) \in Digits THEN SkipDigits(s, i + 1) ELSE i

\* index after a match of -?\d+(\.\d+)? that starts at i, 0 when no match
MatchNumber(s, i) ==
  LET a == IF i <= Len(s) /\ Char(s, i) = "-" THEN i + 1 ELSE i
      b == SkipDigits(s, a)
      c == IF b <= Len(s) /\ Char(s, b) = "." THEN SkipDigits(s, b + 1) ELSE b
  IN IF b = a THEN 0
     ELSE IF c > b + 1 THEN c
     ELSE b

\* re.match(r'^-?\d+(\.\d+)?,-?\d+(\.\d+)?$', text.strip())
is_coordinates(text) ==
  IF text = "" THEN FALSE
  ELSE LET t == Strip(text)
           j == MatchNumber(t, 1)
       IN /\ j # 0
          /\ j <= Len(t)
          /\ Char(t, j) = ","
          /\ MatchNumber(t, j + 1) = Len(t) + 1

\* index of the first "," of s from i on (Len(s) + 1 when none)
RECURSIVE FindComma(_, _)
FindComma(s, i) ==
  IF i > Len(s) \/ Char(s, i) = "," THEN i ELSE FindComma(s, i + 1)

RECURSIVE DigitsVal(_, _, _)
DigitsVal(s, i, acc) ==
  IF i <= Len(s) /\ Char(s, i) \in Digits
  THEN DigitsVal(s, i + 1, 10 * acc + DigitVal(Char(s, i)))
  ELSE acc

\* float(s) for the whole-number texts of the model (sign, digits, optional
\* fraction of zeros); surrounding blanks are accepted as float() does
ParseFloat(s) ==
  LET t == Strip(s)
  IN IF Char(t, 1) = "-" THEN 0 - DigitsVal(t, 2, 0) ELSE DigitsVal(t, 1, 0)

\* map(float, text.split(','))
ParseCoords(text) ==
  LET k == FindComma(text, 1)
  IN <<ParseFloat(SubSeq(text, 1, k - 1)), ParseFloat(SubSeq(text, k + 1, Len(text)))>>

\* f"{lat},{lon}"
FormatCoords(pos) == ToString(pos[1]) \o "," \o ToString(pos[2])

\* --------------------------------------------------------------- geocode
GeocodePos == <<42, -71>>

GeocodeResponses ==
  { [kind |-> "non200", results |-> <<>>],
    [kind |-> "exception", results |-> <<>>],
    [kind |-> "ok", results |-> <<>>],
    [kind |-> "ok", results |-> <<GeocodePos>>] }

\* geocoding that takes a default position when the result list is empty
geocode_addressDefault(api_key, address, resp) ==
  IF api_key = "" \/ address = "" THEN None
  ELSE IF resp.kind # "ok" THEN None
  ELSE Some(FormatCoords(IF resp.results = <<>> THEN GeocodePos ELSE resp.results[1]))

geocode_address(api_key, address, resp) ==
  IF api_key = "" \/ address = "" THEN None
  ELSE IF resp.kind # "ok" THEN None
  ELSE IF resp.results = <<>> THEN None
  ELSE Some(FormatCoords(resp.results[1]))

\* ----------------------------------------------------------- zone lookup
\* forecastZone is modelled as the list of its "/"-separated segments
ZoneResponses ==
  { [kind |-> "non200", zone_url |-> <<>>],
    [kind |-> "ok", zone_url |-> <<>>],
    [kind |-> "ok", zone_url |-> <<"zones", "forecast", "Z1">>] }

get_nws_zone_from_coords(resp) ==
  IF resp.kind # "ok" THEN None
  ELSE IF resp.zone_url = <<>> THEN None
  ELSE Some(resp.zone_url[Len(resp.zone_url)])

\* -------------------------------------------------------------- rounding
\* Python 3 round(n / d) for integers n >= 0, d > 0: half rounds to even
PyRound(n, d) ==
  LET q == n \div d
      r == n % d
  IN IF 2 * r < d THEN q
     ELSE IF 2 * r > d THEN q + 1
     ELSE IF q % 2 = 0 THEN q ELSE q + 1

\* ------------------------------------------------------------- incidents
INCIDENT_TYPES(icon_cat) ==
  CASE icon_cat = 0 -> "Unknown"
    [] icon_cat = 1 -> "Accident"
    [] icon_cat = 2 -> "Fog"
    [] icon_cat = 3 -> "Dangerous Conditions"
    [] icon_cat = 4 -> "Rain"
    [] icon_cat = 5 -> "Ice"
    [] icon_cat = 6 -> "Jam"
    [] icon_cat = 7 -> "Lane Closed"
    [] icon_cat = 8 -> "Road Closed"
    [] icon_cat = 9 -> "Road Works"
    [] icon_cat = 10 -> "Wind"
    [] icon_cat = 11 -> "Flooding"
    [] icon_cat = 14 -> "Broken Down Vehicle"
    [] OTHER -> "Issue"

\* sep.join(parts)
RECURSIVE JoinStr(_, _)
JoinStr(parts, sep) ==
  IF parts = <<>> THEN ""
  ELSE IF Len(parts) = 1 THEN parts[1]
  ELSE parts[1] \o sep \o JoinStr(Tail(parts), sep)

\* one entry of summaries for an incident
\* [iconCategory, from, roadNumbers, delay]
IncidentSummary(inc) ==
  LET incident_type == INCIDENT_TYPES(inc.iconCategory)
      location == IF inc.roadNumbers # <<>> THEN JoinStr(inc.roadNumbers, ", ")
                  ELSE inc.from
  IN IF inc.delay > 60
     THEN LET delay_min == ToString(PyRound(inc.delay, 60))
          IN IF location # ""
             THEN incident_type \o " on " \o location \o " (+" \o delay_min \o "min)"
             ELSE incident_type \o " (+" \o delay_min \o "min)"
     ELSE IF location # "" THEN incident_type \o " on " \o location
     ELSE incident_type

SeqMap(Op(_), s) == [i \in 1..Len(s) |-> Op(s[i])]

FirstN(s, n) == SubSeq(s, 1, IF Len(s) < n THEN Len(s) ELSE n)

\* the incident summary that takes a failed request for an empty answer
fetch_route_incidentsLenient(api_key, resp) ==
  IF api_key = "" THEN ""
  ELSE IF resp.incidents = <<>> THEN "Clear conditions"
  ELSE LET summaries == SeqMap(IncidentSummary, FirstN(resp.incidents, 3))
       IN IF summaries # <<>> THEN JoinStr(summaries, "; ") ELSE "Minor congestion"

\* the incident summary without a sentinel for an empty answer
fetch_route_incidentsNoSentinel(api_key, resp) ==
  IF api_key = "" THEN ""
  ELSE IF resp.kind # "ok" THEN ""
  ELSE JoinStr(SeqMap(IncidentSummary, FirstN(resp.incidents, 3)), "; ")

\* resp: [kind: "non200" | "exception" | "ok", incidents: the list returned]
fetch_route_incidents(api_key, resp) ==
  IF api_key = "" THEN ""
  ELSE IF resp.kind # "ok" THEN ""
  ELSE IF resp.incidents = <<>> THEN "Clear conditions"
  ELSE LET summaries == SeqMap(IncidentSummary, FirstN(resp.incidents, 3))
       IN IF summaries # <<>> THEN JoinStr(summaries, "; ") ELSE "Minor congestion"

\* ---------------------------------------------------------- margin filter
\* The fastest times f (1..2000) for which CPython's double product
\* f * (1 + pct / 100.0) lies below the integer f * (100 + pct) / 100
\* (0 <= pct <= 50): there a candidate exactly at the ceiling compares greater.
ShortfallFastest(pct) ==
  CASE pct = 13 ->
    {
      100, 200, 300, 400, 600, 700, 800, 900, 1100, 1200, 1300, 1400, 1500,
      1600, 1700, 1800 }
    [] pct = 15 ->
    {
      100, 180, 200, 220, 340, 360, 380, 400, 420, 440, 660, 680, 700, 720,
      740, 760, 780, 800, 820, 840, 860, 880, 1300, 1320, 1340, 1360, 1380,
      1400, 1420, 1440, 1460, 1480, 1500, 1520, 1540, 1560, 1580, 1600,
      1620, 1640, 1660, 1680, 1700, 1720, 1740, 1760, 1780 }
    [] pct = 16 ->
    {
      25, 50, 100, 200, 375, 400, 425, 725, 750, 775, 800, 825, 850, 875,
      1425, 1450, 1475, 1500, 1525, 1550, 1575, 1600, 1625, 1650, 1675,
      1700, 1725, 1750 }
    [] pct = 17 ->
    {
      1700 }
    [] pct = 36 ->
    {
      75, 125, 150, 175, 250, 275, 300, 325, 350, 375, 475, 500, 525, 550,
      575, 600, 625, 650, 675, 700, 725, 750, 925, 950, 975, 1000, 1025,
      1050, 1075, 1100, 1125, 1150, 1175, 1200, 1225, 1250, 1275, 1300,
      1325, 1350, 1375, 1400, 1425, 1450, 1475, 1500, 1850, 1875, 1900,
      1925, 1950, 1975, 2000 }
    [] pct = 38 ->
    {
      150, 300, 350, 550, 600, 650, 700, 1100, 1150, 1200, 1250, 1300,
      1350, 1400, 1450 }
    [] pct = 40 ->
    {
      45, 85, 90, 165, 170, 175, 180, 325, 330, 335, 340, 345, 350, 355,
      360, 365, 645, 650, 655, 660, 665, 670, 675, 680, 685, 690, 695, 700,
      705, 710, 715, 720, 725, 730, 1285, 1290, 1295, 1300, 1305, 1310,
      1315, 1320, 1325, 1330, 1335, 1340, 1345, 1350, 1355, 1360, 1365,
      1370, 1375, 1380, 1385, 1390, 1395, 1400, 1405, 1410, 1415, 1420,
      1425, 1430, 1435, 1440, 1445, 1450, 1455, 1460 }
    [] OTHER -> {}

\* the comparison with the ceiling made strict
WithinMaxSecStrict(t, fastest_sec, pct) == t * 100 < fastest_sec * (100 + pct)

\* the margin taken off the fastest time instead of added to it
WithinMaxSecBelow(t, fastest_sec, pct) == t * 100 <= fastest_sec * (100 - pct)

\* t <= fastest_sec * (1 + time_margin_percent / 100.0) in double arithmetic,
\* for integer t and fastest_sec
WithinMaxSec(t, fastest_sec, pct) ==
  IF t * 100 = fastest_sec * (100 + pct)
  THEN fastest_sec \notin ShortfallFastest(pct)
  ELSE t * 100 < fastest_sec * (100 + pct)

SetMin(S) == CHOOSE m \in S : \A x \in S : m <= x

\* the filter that lets the candidates without a travel time through
routes_within_time_marginUntimedKept(routes_data, time_margin_percent) ==
  IF routes_data = <<>> THEN <<>>
  ELSE LET n == Len(routes_data)
           T(i) == routes_data[i + 1].summary.travelTimeInSeconds
           known == {i \in 0..(n - 1) : T(i) # None}
       IN IF known = {} THEN <<0>>
          ELSE LET fastest_sec == SetMin({T(i)[1] : i \in known})
               IN IF fastest_sec <= 0 THEN [k \in 1..n |-> k - 1]
                  ELSE SelectSeq([k \in 1..n |-> k - 1],
                                 LAMBDA i : i \in known =>
                                   WithinMaxSec(T(i)[1], fastest_sec, time_margin_percent))

\* a candidate: [summary |-> [travelTimeInSeconds |-> None | Some(t),
\*                            trafficDelayInSeconds |-> None | Some(d)],
\*               sections |-> <<...>>]
\* The result lists 0-based indices as the code does.
routes_within_time_margin(routes_data, time_margin_percent) ==
  IF routes_data = <<>> THEN <<>>
  ELSE LET n == Len(routes_data)
           T(i) == routes_data[i + 1].summary.travelTimeInSeconds
           known == {i \in 0..(n - 1) : T(i) # None}
       IN IF known = {} THEN <<0>>
          ELSE LET fastest_sec == SetMin({T(i)[1] : i \in known})
               IN IF fastest_sec <= 0 THEN [k \in 1..n |-> k - 1]
                  ELSE LET included_indices ==
                             {i \in known : WithinMaxSec(T(i)[1], fastest_sec, time_margin_percent)}
                       IN SelectSeq([k \in 1..n |-> k - 1], LAMBDA i : i \in included_indices)

\* --------------------------------------------------------- road extractor
UpperCase == <<"A", "B", "C", "D", "E", "F", "G", "H", "I", "J", "K", "L", "M",
               "N", "O", "P", "Q", "R", "S", "T", "U", "V", "W", "X", "Y", "Z">>

LowerCase == <<"a", "b", "c", "d", "e", "f", "g", "h", "i", "j", "k", "l", "m",
               "n", "o", "p", "q", "r", "s", "t", "u", "v", "w", "x", "y", "z">>

LowerChar(c) ==
  IF \E k \in 1..26 : UpperCase[k] = c
  THEN LowerCase[CHOOSE k \in 1..26 : UpperCase[k] = c]
  ELSE c

\* str.lower()
RECURSIVE Lower(_)
Lower(s) == IF s = "" THEN "" ELSE LowerChar(Char(s, 1)) \o Lower(SubSeq(s, 2, Len(s)))

\* needle in hay (substring test)
Contains(hay, needle) ==
  \E i \in 1..(Len(hay) - Len(needle) + 1) : SubSeq(hay, i, i + Len(needle) - 1) = needle

Max(a, b) == IF a >= b THEN a ELSE b

Min(a, b) == IF a <= b THEN a ELSE b

\* A label is a plain string or a dict with a text field:
\* [is_dict |-> BOOLEAN, text |-> STRING]; an absent streetName is the
\* plain empty string.
StreetNameText(street_name_raw) ==
  IF street_name_raw.is_dict THEN street_name_raw.text
  ELSE IF street_name_raw.text # "" THEN Strip(street_name_raw.text) ELSE ""

RoadNumText(rn) == rn.text

\* the display name that prefers the street name to the road numbers
DisplayNameStreetFirst(section) ==
  LET street_name == StreetNameText(section.streetName)
      road_num_texts == SeqMap(RoadNumText, section.roadNumbers)
  IN IF street_name # "" THEN Strip(street_name)
     ELSE IF road_num_texts # <<>> THEN JoinStr(FirstN(road_num_texts, 2), ", ")
     ELSE ""

\* display_name of one section
DisplayName(section) ==
  LET street_name == StreetNameText(section.streetName)
      road_num_texts == SeqMap(RoadNumText, section.roadNumbers)
  IN IF road_num_texts # <<>> THEN JoinStr(FirstN(road_num_texts, 2), ", ")
     ELSE IF street_name # "" THEN Strip(street_name)
     ELSE ""

\* list.sort(key = -length_estimate): stable, longest first
RECURSIVE InsertByLength(_, _)
InsertByLength(sorted, road) ==
  IF sorted = <<>> THEN <<road>>
  ELSE IF road.length_estimate > sorted[Len(sorted)].length_estimate
  THEN InsertByLength(SubSeq(sorted, 1, Len(sorted) - 1), road) \o <<sorted[Len(sorted)]>>
  ELSE sorted \o <<road>>

RECURSIVE SortByLength(_)
SortByLength(roads) ==
  IF roads = <<>> THEN <<>>
  ELSE InsertByLength(SortByLength(SubSeq(roads, 1, Len(roads) - 1)), roads[Len(roads)])

\* the loop that keeps sections of every type and every length
RECURSIVE ExtractFromUnfiltered(_, _, _, _)
ExtractFromUnfiltered(sections, k, roads, seen_keys) ==
  IF k > Len(sections) THEN roads
  ELSE LET section == sections[k]
           length_estimate == Max(1, section.endPointIndex - section.startPointIndex)
           display_name == DisplayName(section)
       IN IF display_name # "" /\ Lower(display_name) \notin seen_keys
          THEN ExtractFromUnfiltered(sections, k + 1,
                                     Append(roads, [name |-> display_name,
                                                    length_estimate |-> length_estimate]),
                                     seen_keys \cup {Lower(display_name)})
          ELSE ExtractFromUnfiltered(sections, k + 1, roads, seen_keys)

\* the loop over route_obj.sections, from section k on
RECURSIVE ExtractFrom(_, _, _, _)
ExtractFrom(sections, k, roads, seen_keys) ==
  IF k > Len(sections) THEN roads
  ELSE LET section == sections[k]
           length_estimate == Max(1, section.endPointIndex - section.startPointIndex)
           display_name == DisplayName(section)
       IN IF section.sectionType # "IMPORTANT_ROAD_STRETCH"
          THEN ExtractFrom(sections, k + 1, roads, seen_keys)
          ELSE IF length_estimate < 20
          THEN ExtractFrom(sections, k + 1, roads, seen_keys)
          ELSE IF display_name # "" /\ Lower(display_name) \notin seen_keys
          THEN ExtractFrom(sections, k + 1,
                           Append(roads, [name |-> display_name,
                                          length_estimate |-> length_estimate]),
                           seen_keys \cup {Lower(display_name)})
          ELSE ExtractFrom(sections, k + 1, roads, seen_keys)

extract_road_names_from_route(route_obj) ==
  SortByLength(ExtractFrom(route_obj.sections, 1, <<>>, {}))

\* -------------------------------------------------------- road aggregator
OrZero(v) == IF v = None THEN 0 ELSE v[1]

RoadName(r) == r.name

\* routes_info entry of a candidate with its top road names
RouteInfoOf(summary, road_names) ==
  [travel_time_min |-> PyRound(OrZero(summary.travelTimeInSeconds), 60),
   delay_min |-> PyRound(OrZero(summary.trafficDelayInSeconds), 60),
   roads |-> road_names,
   road_set |-> {Lower(road_names[k]) : k \in 1..Len(road_names)}]

\* routes_info entry of the candidate at 0-based index idx
RouteInfo(routes_data, idx) ==
  RouteInfoOf(routes_data[idx + 1].summary,
              SeqMap(RoadName, FirstN(extract_road_names_from_route(routes_data[idx + 1]), 3)))

\* list.sort(key = travel_time_min): stable, fastest first
RECURSIVE InsertByTime(_, _)
InsertByTime(sorted, entry) ==
  IF sorted = <<>> THEN <<entry>>
  ELSE IF entry.travel_time_min < sorted[Len(sorted)].travel_time_min
  THEN InsertByTime(SubSeq(sorted, 1, Len(sorted) - 1), entry) \o <<sorted[Len(sorted)]>>
  ELSE sorted \o <<entry>>

RECURSIVE SortByTime(_)
SortByTime(entries) ==
  IF entries = <<>> THEN <<>>
  ELSE InsertByTime(SortByTime(SubSeq(entries, 1, Len(entries) - 1)), entries[Len(entries)])

\* status of an entry: the notes (cut to 100 characters) when one of its
\* display roads occurs in them, None otherwise
EntryStatus(display_roads, primary_notes) ==
  IF primary_notes = None \/ primary_notes = Some("") THEN None
  ELSE IF \E k \in 1..Len(display_roads) :
            Contains(Lower(primary_notes[1]), Lower(display_roads[k]))
  THEN Some(IF Len(primary_notes[1]) > 100 THEN SubSeq(primary_notes[1], 1, 100)
            ELSE primary_notes[1])
  ELSE None

\* min(r["travel_time_min"] for r in routes_info)
MinTime(routes_info) ==
  SetMin({routes_info[k].travel_time_min : k \in 1..Len(routes_info)})

\* the roads common to all routes when there are several
CommonRoads(routes_info) ==
  IF Len(routes_info) > 1
  THEN {rd \in routes_info[1].road_set :
          \A k \in 2..Len(routes_info) : rd \in routes_info[k].road_set}
  ELSE {}

UniqueRoads(r, common_roads) ==
  SelectSeq(r.roads, LAMBDA name : Lower(name) \notin common_roads)

DisplayRoads(r, unique_roads) ==
  IF unique_roads # <<>> THEN FirstN(unique_roads, 2) ELSE FirstN(r.roads, 2)

\* the entry that takes the provider's first candidate for the fastest
EntryFirstIsFastest(i, r, min_time, display_roads, primary_notes) ==
  [route_num |-> i,
   travel_time_min |-> r.travel_time_min,
   delay_min |-> r.delay_min,
   is_fastest |-> (i = 1),
   time_vs_fastest |-> r.travel_time_min - min_time,
   key_roads |-> display_roads,
   status |-> EntryStatus(display_roads, primary_notes)]

\* the entry of the i-th route of routes_info (route_num is i + 1 for the
\* code's 0-based i)
Entry(i, r, min_time, display_roads, primary_notes) ==
  [route_num |-> i,
   travel_time_min |-> r.travel_time_min,
   delay_min |-> r.delay_min,
   is_fastest |-> (r.travel_time_min = min_time),
   time_vs_fastest |-> r.travel_time_min - min_time,
   key_roads |-> display_roads,
   status |-> EntryStatus(display_roads, primary_notes)]

Entries(routes_info, min_time, common_roads, primary_notes) ==
  [i \in 1..Len(routes_info) |->
     Entry(i, routes_info[i], min_time,
           DisplayRoads(routes_info[i], UniqueRoads(routes_info[i], common_roads)),
           primary_notes)]

\* aggregate_main_roads once routes_info is collected
AggregateInfo(routes_info, primary_notes) ==
  IF routes_info = <<>> THEN <<>>
  ELSE SortByTime(Entries(routes_info, MinTime(routes_info), CommonRoads(routes_info),
                          primary_notes))

\* the routes_info of the indices that exist
RoutesInfo(routes_data, valid) ==
  [k \in 1..Len(valid) |-> RouteInfo(routes_data, valid[k])]

aggregate_main_roads(routes_data, within_margin_indices, primary_delay_minutes, primary_notes) ==
  IF Len(within_margin_indices) = 0 THEN <<>>
  ELSE AggregateInfo(RoutesInfo(routes_data,
                                SelectSeq(within_margin_indices,
                                          LAMBDA idx : idx < Len(routes_data))),
                     primary_notes)

\* ============================================================ the system
\* ---------------------------------------------------------------- inputs
ApiKeys == {"", "key"}

\* route entries a settings update may carry (TrafficRouteUpdate: three strings)
CoordsRoute == [name |-> "A", origin |-> "1,1", destination |-> "2,2"]

AddressRoute == [name |-> "A", origin |-> "Main St", destination |-> "MIT"]

ZeroLatRoute == [name |-> "B", origin |-> "0,5", destination |-> "2,2"]

IncompleteRoute == [name |-> "A", origin |-> "", destination |-> "2,2"]

\* the route lists a settings update may carry; the API checks neither that
\* names differ nor that a text is filled in
RouteConfigs ==
  { c \in { <<>>,
            <<CoordsRoute>>,
            <<AddressRoute, ZeroLatRoute>>,
            <<ZeroLatRoute, ZeroLatRoute>>,
            <<IncompleteRoute, ZeroLatRoute>>,
            <<CoordsRoute, AddressRoute, ZeroLatRoute>> } : Len(c) <= MaxRoutes }

Candidate(t, d, sections) ==
  [summary |-> [travelTimeInSeconds |-> Some(t), trafficDelayInSeconds |-> Some(d)],
   sections |-> sections]

RoutingResponses ==
  { [kind |-> "non200", status |-> 403, routes |-> <<>>],
    [kind |-> "exception", status |-> 0, routes |-> <<>>],
    [kind |-> "ok", status |-> 200, routes |-> <<>>],
    [kind |-> "ok", status |-> 200, routes |-> <<Candidate(1500, 300, <<>>)>>],
    \* the provider's first suggestion is neither the fastest nor within the margin
    [kind |-> "ok", status |-> 200,
     routes |-> <<Candidate(1500, 300, <<>>), Candidate(900, 60, <<>>)>>] }

IncidentResponses ==
  { [kind |-> "non200", incidents |-> <<>>],
    [kind |-> "exception", incidents |-> <<>>],
    [kind |-> "ok", incidents |-> <<>>] }

\* environment default of config.TRAFFIC_ROUTES_CONFIG
TRAFFIC_ROUTES_CONFIG == <<>>

\* environment defaults of config.LOCATION_NAME and config.NWS_ZONE_CODES
LOCATION_NAME == "New York, NY"

NWS_ZONE_CODES == "NYZ072,NYZ073"

DefaultMaxAlternatives == 3

DefaultTimeMarginPercent == 15

\* ----------------------------------------------------------------- state
VARIABLES
  TRAFFIC_API_KEY,   \* config.TRAFFIC_API_KEY of the running process
  user_settings,     \* the UserSettings row: None or Some([traffic_routes |-> ...])
  rows,              \* committed traffic_routes table, in id order
  pc,                \* "idle", "routes" (inside the loop), "returned" or "raised"
  routes_config,     \* settings["routes"] read by the latest cycle
  idx,               \* position of the loop in routes_config
  stale_routes,      \* the rows the latest cycle found stale and deleted
  working,           \* the session's view of the committed rows (with unflushed changes)
  added,             \* rows added to the session and not flushed yet
  total_updated,
  errors,
  outcomes,          \* what became of each entry of the latest cycle
  calls,             \* provider calls issued while processing the latest entry
  result,            \* how the latest cycle ended
  now,               \* cycles started so far; the clock of fetched_at
  responses,         \* the answers the providers give, entry by entry, to a cycle run twice
  first_rows,        \* the table after the first of two runs: None or Some(rows)
  candidates,        \* routes_data handed to the margin filter and the aggregator
  margin,            \* time_margin_percent handed to the margin filter
  viable,            \* what routes_within_time_margin returned: None or Some(indices)
  viable_before,     \* the call before that one: None or Some([margin, indices])
  main_roads_list,   \* what aggregate_main_roads returned: None or Some(entries)
  tomtom_route,      \* route_obj handed to the road extractor
  extracted,         \* what extract_road_names_from_route returned: None or Some(roads)
  resolved,          \* what get_active_traffic_settings returned: None or Some(settings)
  max_alternatives_param,  \* maxAlternatives of the routing request: None or Some(n)
  incident_answer,   \* the answer of the incidents provider to fetch_route_incidents
  notes,             \* what fetch_route_incidents returned: None or Some(text)
  in_flight,         \* where each caller of fetch_traffic_alerts is in its cycle
  alerts_returned,   \* what fetch_traffic_alerts returned: None or Some(value)
  traffic_errors     \* traffic_errors of refresh_data at its return: None or Some(list)

\* the variables of the pure functions called on their own
unit_vars == <<candidates, margin, viable, viable_before, main_roads_list, tomtom_route, extracted>>

\* the variables of the cycle run twice
twice_vars == <<responses, first_rows>>

\* the variables of the settings resolver and of the incident summary called on
\* their own, of the callers of a refresh, and of the alert poll
settings_vars == <<resolved, max_alternatives_param>>

incident_vars == <<incident_answer, notes>>

caller_vars == <<in_flight>>

alert_vars == <<alerts_returned, traffic_errors>>

service_vars == <<settings_vars, incident_vars, caller_vars, alert_vars>>

vars == <<TRAFFIC_API_KEY, user_settings, rows, pc, routes_config, idx, stale_routes,
          working, added, total_updated, errors, outcomes, calls, result, now,
          twice_vars, unit_vars, service_vars>>

\* ------------------------------------------------------ settings resolver
\* a clamp that has no lower bound
ClampBelowOnly(lo, hi, v) == Min(hi, v)

Clamp(lo, hi, v) == Min(hi, Max(lo, v))

\* traffic_options: None or Some([max_alternatives |-> None | Some(n),
\*                                time_margin_percent |-> None | Some(n)])
ActiveTrafficOptions(traffic_options) ==
  LET opts == IF traffic_options = None
              THEN [max_alternatives |-> None, time_margin_percent |-> None]
              ELSE traffic_options[1]
      ma == IF opts.max_alternatives = None THEN DefaultMaxAlternatives
            ELSE opts.max_alternatives[1]
      tm == IF opts.time_margin_percent = None THEN DefaultTimeMarginPercent
            ELSE opts.time_margin_percent[1]
  IN [max_alternatives |-> Clamp(1, 5, ma), time_margin_percent |-> Clamp(5, 50, tm)]

\* the zone codes every settings row is taken to have
ZoneCodesAlwaysDefault(settings) == Some(NWS_ZONE_CODES)

\* settings.nws_zone_codes, else the environment default when there is no row
\* or the row has no location name, else nothing
ZoneCodes(settings) ==
  IF settings # None /\ TruthyStr(settings[1].nws_zone_codes)
  THEN settings[1].nws_zone_codes
  ELSE IF settings = None \/ ~TruthyStr(settings[1].location_name)
  THEN Some(NWS_ZONE_CODES)
  ELSE None

\* settings: None (no UserSettings row) or Some(row), row:
\* [location_name, nws_zone_codes: None | Some(text), traffic_options, traffic_routes]
get_active_traffic_settings(settings) ==
  [routes |-> IF settings # None /\ settings[1].traffic_routes # <<>>
              THEN settings[1].traffic_routes
              ELSE TRAFFIC_ROUTES_CONFIG,
   zone_codes |-> ZoneCodes(settings),
   location_name |-> IF settings # None THEN settings[1].location_name
                     ELSE Some(LOCATION_NAME),
   traffic_options |-> ActiveTrafficOptions(IF settings # None
                                            THEN settings[1].traffic_options ELSE None)]

\* fetch_route_estimates: the alternatives asked of the routing provider
MaxAlternativesParam(traffic_options) ==
  LET total_routes_wanted == Clamp(1, 5, traffic_options.max_alternatives)
  IN Max(0, total_routes_wanted - 1)

\* the UserSettings row update_settings creates when there is none
NewSettings ==
  [location_name |-> Some(LOCATION_NAME), nws_zone_codes |-> Some(NWS_ZONE_CODES),
   traffic_options |-> None, traffic_routes |-> <<>>]

\* ------------------------------------------------------------ persistence
NewRoute(name, origin_raw, dest_raw) ==
  [name |-> name, origin |-> origin_raw, destination |-> dest_raw,
   origin_lat |-> None, origin_lon |-> None, dest_lat |-> None, dest_lon |-> None,
   origin_zone |-> None, dest_zone |-> None,
   current_duration_minutes |-> None, typical_duration_minutes |-> None,
   delay_minutes |-> None, main_roads |-> <<>>, alternatives_within_margin |-> None,
   traffic_notes |-> None, fetched_at |-> None]

\* db.query(TrafficRoute).filter(TrafficRoute.name == name).first(): the SQL
\* sees the flushed rows only (autoflush is off), in id order; 0 when no row
QueryFirst(table, name) ==
  IF \E k \in 1..Len(table) : table[k].name = name
  THEN CHOOSE k \in 1..Len(table) :
         /\ table[k].name = name
         /\ \A j \in 1..(k - 1) : table[j].name # name
  ELSE 0

\* configured_names = {r.get("name") for r in routes_config if r.get("name")}
ConfiguredNames(config) == {config[k].name : k \in {j \in 1..Len(config) : config[j].name # ""}}

\* the pruning filter that finds no row stale
IsStaleNever(row, config) == FALSE

IsStale(row, config) == row.name \notin ConfiguredNames(config)

\* ------------------------------------------------------- the refresh cycle
\* every text the cycle may have to classify or parse, with the answer of
\* is_coordinates and of map(float, text.split(',')) worked out once
EndpointTexts ==
  (UNION {UNION {{c[k].origin, c[k].destination} : k \in 1..Len(c)} : c \in RouteConfigs}
     \cup {FormatCoords(GeocodePos)}) \ {""}

IsCoordinatesOf == [text \in EndpointTexts |-> is_coordinates(text)]

CoordsOf == [text \in {t \in EndpointTexts : is_coordinates(t)} |-> ParseCoords(text)]

\* a provider call: which provider, for which endpoint of which route, with
\* what text, and what the provider answered
Call(api, endpoint, arg, resp) == [api |-> api, endpoint |-> endpoint, arg |-> arg, resp |-> resp]

\* an error path that rolls the session back: the pending inserts are lost
ContinueRollback(st, outcome, errs, issued) ==
  [working |-> st.working, added |-> <<>>, total_updated |-> st.total_updated,
   errors |-> errs, outcome |-> outcome, calls |-> issued]

\* a skipped entry that is counted as updated
ContinueCounted(st, outcome, errs, issued) ==
  [working |-> st.working, added |-> st.added, total_updated |-> st.total_updated + 1,
   errors |-> errs, outcome |-> outcome, calls |-> issued]

\* the route is left as it is and the loop continues
Continue(st, outcome, errs, issued) ==
  [working |-> st.working, added |-> st.added, total_updated |-> st.total_updated,
   errors |-> errs, outcome |-> outcome, calls |-> issued]

\* the zone guard without the test of the stored zone
NeedsZoneAlways(zone, lat) == TruthyNum(lat)

\* if not route.origin_zone and origin_lat (the same for the destination)
NeedsZone(zone, lat) == ~TruthyStr(zone) /\ TruthyNum(lat)

\* The steps of the loop body after the routing answer, last step first.
\* Each takes the locals l of the iteration and hands them on, with what
\* it computed, to the step that follows it in the code.

\* route.traffic_notes = traffic_notes; total_updated += 1
StoreRoute(l, route) ==
  [working |-> IF l.k = 0 THEN l.st.working ELSE [l.st.working EXCEPT ![l.k] = route],
   added |-> IF l.k = 0 THEN Append(l.st.added, route) ELSE l.st.added,
   total_updated |-> l.st.total_updated + 1,
   errors |-> l.st.errors,
   outcome |-> "updated",
   calls |-> l.calls]

StoreNotes(l) == StoreRoute(l, [l.route EXCEPT !.traffic_notes = Some(l.traffic_notes)])

\* refresh the destination zone if missing
DestZone(l) ==
  IF NeedsZone(l.route.dest_zone, l.dest_lat)
  THEN StoreNotes([route |-> [l.route EXCEPT
                                !.dest_zone = get_nws_zone_from_coords(l.resp.zone_dest)],
                   calls |-> Append(l.calls, Call("zone", "destination", l.destination,
                                                  l.resp.zone_dest))] @@ l)
  ELSE StoreNotes(l)

\* refresh the origin zone if missing
OriginZone(l) ==
  IF NeedsZone(l.route.origin_zone, l.origin_lat)
  THEN DestZone([route |-> [l.route EXCEPT
                              !.origin_zone = get_nws_zone_from_coords(l.resp.zone_origin)],
                 calls |-> Append(l.calls, Call("zone", "origin", l.origin,
                                                l.resp.zone_origin))] @@ l)
  ELSE DestZone(l)

\* the estimates and the coordinates written to the record
SetFields(l) ==
  OriginZone([route |-> [l.route EXCEPT
                           !.current_duration_minutes = Some(l.cur_duration),
                           !.typical_duration_minutes = Some(l.cur_duration - l.delay_min),
                           !.delay_minutes = Some(l.delay_min),
                           !.main_roads = l.main_roads_list,
                           !.alternatives_within_margin = Some(Len(l.within_indices)),
                           !.fetched_at = Some(l.clock),
                           !.origin_lat = l.origin_lat,
                           !.origin_lon = l.origin_lon,
                           !.dest_lat = l.dest_lat,
                           !.dest_lon = l.dest_lon]] @@ l)

\* update or create the database record
Upsert(l) ==
  IF l.k = 0
  THEN SetFields([route |-> NewRoute(l.name, l.origin_raw, l.dest_raw)] @@ l)
  ELSE SetFields([route |-> l.st.working[l.k]] @@ l)

FindRoute(l) == Upsert([k |-> QueryFirst(l.st.working, l.name)] @@ l)

\* main_roads_list of the candidates within the margin
MainRoads(l) ==
  IF l.within_indices # <<>>
  THEN FindRoute([main_roads_list |->
                    aggregate_main_roads(l.routes_data, l.within_indices,
                                         IF l.delay_min # 0 THEN Some(l.delay_min) ELSE None,
                                         IF l.traffic_notes # "" THEN Some(l.traffic_notes)
                                         ELSE None)] @@ l)
  ELSE FindRoute([main_roads_list |-> <<>>] @@ l)

WithinMargin(l) ==
  MainRoads([within_indices |->
               routes_within_time_margin(l.routes_data, l.time_margin_percent)] @@ l)

\* the incident details, asked for when both latitudes are truthy
Incidents(l) ==
  IF TruthyNum(l.origin_lat) /\ TruthyNum(l.dest_lat)
  THEN WithinMargin([traffic_notes |-> fetch_route_incidents(l.api_key, l.resp.incidents),
                     calls |-> Append(l.calls, Call("incidents", "route", l.name,
                                                    l.resp.incidents))] @@ l)
  ELSE WithinMargin([traffic_notes |-> ""] @@ l)

\* the durations taken from the fastest candidate instead of the first
DurationsOfFastest(l) ==
  Incidents([cur_duration |->
               PyRound(SetMin({OrZero(l.routes_data[i].summary.travelTimeInSeconds) :
                                 i \in 1..Len(l.routes_data)}), 60),
             delay_min |->
               PyRound(OrZero(l.routes_data[1].summary.trafficDelayInSeconds), 60)] @@ l)

\* the durations of the first candidate
Durations(l) ==
  Incidents([cur_duration |->
               PyRound(OrZero(l.routes_data[1].summary.travelTimeInSeconds), 60),
             delay_min |->
               PyRound(OrZero(l.routes_data[1].summary.trafficDelayInSeconds), 60)] @@ l)

\* the coordinates of the two resolved "lat,lon" texts
Positions(l, origin_pos, dest_pos) ==
  Durations([origin_lat |-> Some(origin_pos[1]), origin_lon |-> Some(origin_pos[2]),
             dest_lat |-> Some(dest_pos[1]), dest_lon |-> Some(dest_pos[2])] @@ l)

\* the update of the database record once a routing answer with candidates is in
\* (origin, destination: the resolved "lat,lon" texts)
UpdateRoute(route_cfg, st, api_key, time_margin_percent, clock, resp, origin, destination, issued) ==
  Positions([name |-> route_cfg.name, origin_raw |-> route_cfg.origin,
             dest_raw |-> route_cfg.destination, st |-> st, api_key |-> api_key,
             time_margin_percent |-> time_margin_percent, clock |-> clock, resp |-> resp,
             origin |-> origin, destination |-> destination,
             routes_data |-> resp.routing.routes, calls |-> issued],
            CoordsOf[origin], CoordsOf[destination])

\* the routing request without the test of the response status
RequestRouteUnchecked(route_cfg, st, api_key, time_margin_percent, clock, resp, origin, destination, issued) ==
  LET name == route_cfg.name
      callsR == Append(issued, Call("routing", "route", name, resp.routing))
  IN IF resp.routing.kind = "exception"
     THEN Continue(st, "routing_exception",
                   Append(st.errors, "Error fetching route '" \o name \o "': connection failed"),
                   callsR)
     ELSE IF resp.routing.routes = <<>>
     THEN Continue(st, "no_routes", st.errors, callsR)
     ELSE UpdateRoute(route_cfg, st, api_key, time_margin_percent, clock, resp,
                      origin, destination, callsR)

\* the routing request and what follows it
RequestRoute(route_cfg, st, api_key, time_margin_percent, clock, resp, origin, destination, issued) ==
  LET name == route_cfg.name
      callsR == Append(issued, Call("routing", "route", name, resp.routing))
  IN IF resp.routing.kind = "exception"
     THEN Continue(st, "routing_exception",
                   Append(st.errors, "Error fetching route '" \o name \o "': connection failed"),
                   callsR)
     ELSE IF resp.routing.status # 200
     THEN Continue(st, "routing_non200",
                   Append(st.errors, "TomTom API level error for " \o name \o ": "
                                       \o ToString(resp.routing.status)),
                   callsR)
     ELSE IF resp.routing.routes = <<>>
     THEN Continue(st, "no_routes", st.errors, callsR)
     ELSE UpdateRoute(route_cfg, st, api_key, time_margin_percent, clock, resp,
                      origin, destination, callsR)

\* an endpoint text resolved to "lat,lon": itself, or what geocoding gives
Resolve(raw, api_key, geo) ==
  IF IsCoordinatesOf[raw] THEN Some(raw) ELSE geocode_address(api_key, raw, geo)

\* the geocoding request put before the requests issued so far
GeocodeCallsPrepended(issued, endpoint, raw, geo) ==
  IF IsCoordinatesOf[raw] THEN issued ELSE <<Call("geocode", endpoint, raw, geo)>> \o issued

\* the geocoding request is issued for a text that is not coordinates
GeocodeCalls(issued, endpoint, raw, geo) ==
  IF IsCoordinatesOf[raw] THEN issued ELSE Append(issued, Call("geocode", endpoint, raw, geo))

\* the loop body once the destination went through resolution
WithDestination(route_cfg, st, api_key, time_margin_percent, clock, resp, origin, d_resolved, issued) ==
  IF ~TruthyStr(d_resolved)
  THEN Continue(st, "destination_unresolved",
                Append(st.errors, "Could not resolve destination: " \o route_cfg.destination),
                issued)
  ELSE RequestRoute(route_cfg, st, api_key, time_margin_percent, clock, resp,
                    origin, d_resolved[1], issued)

\* the loop body once the origin went through resolution
WithOrigin(route_cfg, st, api_key, time_margin_percent, clock, resp, o_resolved, issued) ==
  IF ~TruthyStr(o_resolved)
  THEN Continue(st, "origin_unresolved",
                Append(st.errors, "Could not resolve origin: " \o route_cfg.origin), issued)
  ELSE WithDestination(route_cfg, st, api_key, time_margin_percent, clock, resp,
                       o_resolved[1],
                       Resolve(route_cfg.destination, api_key, resp.geo_dest),
                       GeocodeCalls(issued, "destination", route_cfg.destination,
                                    resp.geo_dest))

\* one pass of the loop body of fetch_route_estimates for route_cfg
\* st: [working, added, total_updated, errors]
ProcessRoute(route_cfg, st, api_key, time_margin_percent, clock, resp) ==
  IF route_cfg.origin = "" \/ route_cfg.destination = ""
  THEN Continue(st, "incomplete", st.errors, <<>>)
  ELSE WithOrigin(route_cfg, st, api_key, time_margin_percent, clock, resp,
                  Resolve(route_cfg.origin, api_key, resp.geo_origin),
                  GeocodeCalls(<<>>, "origin", route_cfg.origin, resp.geo_origin))

\* --------------------------------------------------------------- actions
\* a response that is never asked for
Unused(S) == CHOOSE r \in S : r.kind = "non200"

NoResult == [kind |-> "none", count |-> 0, errors |-> <<>>]

\* no cycle is being run twice
NoReplay == responses = <<>> /\ first_rows = None

\* a route object without guidance and without sections
NoRoute == [guidance |-> [instructions |-> <<>>], sections |-> <<>>]

\* no pure function is being called on its own
NoUnitCall ==
  /\ candidates = <<>>
  /\ margin = 0
  /\ viable = None
  /\ viable_before = None
  /\ main_roads_list = None
  /\ tomtom_route = NoRoute
  /\ extracted = None

\* the callers of fetch_traffic_alerts
Callers == {"fetch_traffic_job", "run_initial_fetch", "refresh_data"}

\* no resolver, incident summary, caller or alert poll is at work
NoSettingsCall == resolved = None /\ max_alternatives_param = None

NoIncidentCall == incident_answer = Unused(IncidentResponses) /\ notes = None

NoCaller == in_flight = [caller \in Callers |-> "idle"]

NoAlertPoll == alerts_returned = None /\ traffic_errors = None

NoServiceCall == NoSettingsCall /\ NoIncidentCall /\ NoCaller /\ NoAlertPoll

Init ==
  /\ TRAFFIC_API_KEY \in ApiKeys
  /\ user_settings = None
  /\ rows = <<>>
  /\ pc = "idle"
  /\ routes_config = <<>>
  /\ idx = 0
  /\ stale_routes = <<>>
  /\ working = <<>>
  /\ added = <<>>
  /\ total_updated = 0
  /\ errors = <<>>
  /\ outcomes = <<>>
  /\ calls = <<>>
  /\ result = NoResult
  /\ now = 0
  /\ NoReplay
  /\ NoUnitCall
  /\ NoServiceCall

\* PUT /api/settings with traffic_routes (no location, no sports teams)
update_settings ==
  /\ pc = "idle"
  /\ now < MaxCycles
  /\ \E traffic_routes \in RouteConfigs :
       user_settings' = Some([(IF user_settings = None THEN NewSettings
                               ELSE user_settings[1])
                              EXCEPT !.traffic_routes = traffic_routes])
  /\ UNCHANGED <<TRAFFIC_API_KEY, rows, pc, routes_config, idx, stale_routes, working,
                 added, total_updated, errors, outcomes, calls, result, now>>
  /\ UNCHANGED <<twice_vars, unit_vars, service_vars>>

\* the process is restarted with another environment; the database file stays
Restart ==
  /\ pc = "idle"
  /\ now < MaxCycles
  /\ \E key \in ApiKeys \ {TRAFFIC_API_KEY} : TRAFFIC_API_KEY' = key
  /\ UNCHANGED <<user_settings, rows, pc, routes_config, idx, stale_routes, working,
                 added, total_updated, errors, outcomes, calls, result, now>>
  /\ UNCHANGED <<twice_vars, unit_vars, service_vars>>

\* the early return that looks at the route list only
SkipCycleNoRoutes(api_key, config) == config = <<>>

\* if not TRAFFIC_API_KEY or not routes_config
SkipCycle(api_key, config) == api_key = "" \/ config = <<>>

\* fetch_route_estimates up to the loop: settings, early return, stale routes
StartCycle ==
  /\ pc = "idle"
  /\ now < MaxCycles
  /\ now' = now + 1
  /\ LET settings == get_active_traffic_settings(user_settings)
     IN /\ routes_config' = settings.routes
        /\ IF SkipCycle(TRAFFIC_API_KEY, settings.routes)
           THEN /\ result' = [kind |-> "skipped", count |-> 0, errors |-> <<>>]
                /\ pc' = "returned"
                /\ UNCHANGED <<rows, idx, working, stale_routes>>
           ELSE LET stale == SelectSeq(rows, LAMBDA row : IsStale(row, settings.routes))
                \* db.commit() is reached, and may raise, when a row is stale
                IN \E db_ok \in (IF stale = <<>> THEN {TRUE} ELSE BOOLEAN) :
                     IF db_ok
                     THEN /\ stale_routes' = stale
                          /\ rows' = SelectSeq(rows, LAMBDA row : ~IsStale(row, settings.routes))
                          /\ working' = rows'
                          /\ pc' = "routes"
                          /\ idx' = 1
                          /\ result' = NoResult
                     ELSE /\ result' = [kind |-> "raised", count |-> 0, errors |-> <<>>]
                          /\ pc' = "raised"
                          /\ UNCHANGED <<rows, idx, working, stale_routes>>
  /\ UNCHANGED <<TRAFFIC_API_KEY, user_settings, added, total_updated, errors,
                 outcomes, calls>>
  /\ UNCHANGED <<twice_vars, unit_vars, service_vars>>

\* the locals of the cycle after an iteration that came out as out
EndIteration(out) ==
  /\ working' = out.working
  /\ added' = out.added
  /\ total_updated' = out.total_updated
  /\ errors' = out.errors
  /\ outcomes' = Append(outcomes, out.outcome)
  /\ calls' = out.calls

\* one iteration of the loop over routes_config; each provider answers as
\* it likes, and only the providers the iteration can reach are drawn
ProcessNext ==
  /\ pc = "routes"
  /\ idx <= Len(routes_config)
  /\ LET route_cfg == routes_config[idx]
         st == [working |-> working, added |-> added,
                total_updated |-> total_updated, errors |-> errors]
         GeoFor(text) == IF text = "" \/ IsCoordinatesOf[text]
                         THEN {Unused(GeocodeResponses)} ELSE GeocodeResponses
         After(routing, S) == IF routing.kind = "ok" /\ routing.routes # <<>>
                              THEN S ELSE {Unused(S)}
     IN \E geo_origin \in GeoFor(route_cfg.origin), geo_dest \in GeoFor(route_cfg.destination),
           routing \in RoutingResponses :
          \E incidents \in After(routing, IncidentResponses),
             zone_origin \in After(routing, ZoneResponses),
             zone_dest \in After(routing, ZoneResponses) :
            LET resp == [geo_origin |-> geo_origin, geo_dest |-> geo_dest,
                         routing |-> routing, incidents |-> incidents,
                         zone_origin |-> zone_origin, zone_dest |-> zone_dest]
            IN EndIteration(ProcessRoute(route_cfg, st, TRAFFIC_API_KEY,
                                         ActiveTrafficOptions(None).time_margin_percent, now, resp))
  /\ idx' = idx + 1
  /\ UNCHANGED <<TRAFFIC_API_KEY, user_settings, rows, pc, routes_config, stale_routes,
                 result, now>>
  /\ UNCHANGED <<twice_vars, unit_vars, service_vars>>

\* the commit after the loop, and the handler of a batch-level exception
FinishCycle ==
  /\ pc = "routes"
  /\ idx > Len(routes_config)
  /\ \E db_ok \in BOOLEAN :
       IF db_ok
       THEN /\ rows' = working \o added
            /\ result' = [kind |-> "committed", count |-> total_updated, errors |-> errors]
       ELSE /\ rows' = rows
            /\ result' = [kind |-> "fatal", count |-> 0,
                          errors |-> <<"Fatal route fetch error: database is locked">>]
  /\ pc' = "returned"
  /\ UNCHANGED <<TRAFFIC_API_KEY, user_settings, routes_config, idx, stale_routes, working,
                 added, total_updated, errors, outcomes, calls, now>>
  /\ UNCHANGED <<twice_vars, unit_vars, service_vars>>

\* the caller has the outcome; the locals of the call are gone
Return ==
  /\ pc \in {"returned", "raised"}
  /\ pc' = "idle"
  /\ routes_config' = <<>>
  /\ idx' = 0
  /\ stale_routes' = <<>>
  /\ working' = <<>>
  /\ added' = <<>>
  /\ total_updated' = 0
  /\ errors' = <<>>
  /\ outcomes' = <<>>
  /\ calls' = <<>>
  /\ result' = NoResult
  /\ UNCHANGED <<TRAFFIC_API_KEY, user_settings, rows, now>>
  /\ UNCHANGED <<twice_vars, unit_vars, service_vars>>

Next ==
  \/ update_settings
  \/ Restart
  \/ StartCycle
  \/ ProcessNext
  \/ FinishCycle
  \/ Return

Spec == Init /\ [][Next]_vars

\* ----------------------------------------------------- the cycle run twice
\* the answers the providers may give while one entry is processed; only the
\* providers the entry can reach are drawn
GeoAnswers(text) ==
  IF text = "" \/ IsCoordinatesOf[text] THEN {Unused(GeocodeResponses)} ELSE GeocodeResponses

AfterRouting(routing, S) ==
  IF routing.kind = "ok" /\ routing.routes # <<>> THEN S ELSE {Unused(S)}

AnswersFor(route_cfg) ==
  UNION { { [geo_origin |-> geo_origin, geo_dest |-> geo_dest, routing |-> routing,
             incidents |-> incidents, zone_origin |-> zone_origin, zone_dest |-> zone_dest] :
            incidents \in AfterRouting(routing, IncidentResponses),
            zone_origin \in AfterRouting(routing, ZoneResponses),
            zone_dest \in AfterRouting(routing, ZoneResponses) } :
          geo_origin \in GeoAnswers(route_cfg.origin),
          geo_dest \in GeoAnswers(route_cfg.destination),
          routing \in RoutingResponses }

\* one answer per entry for the first k entries of config
RECURSIVE AnswerLists(_, _)
AnswerLists(config, k) ==
  IF k = 0 THEN {<<>>}
  ELSE {Append(a, r) : a \in AnswerLists(config, k - 1), r \in AnswersFor(config[k])}

\* the route lists the cycle is run twice on
TwiceConfigs ==
  {c \in RouteConfigs \cup {<<CoordsRoute, AddressRoute>>} : c # <<>> /\ Len(c) <= MaxRoutes}

\* the loop over routes_config from entry k on, entry j answered by answers[j]
RECURSIVE RunLoop(_, _, _, _, _, _, _)
RunLoop(config, k, st, api_key, time_margin_percent, clock, answers) ==
  IF k > Len(config) THEN st
  ELSE RunLoop(config, k + 1,
               ProcessRoute(config[k], st, api_key, time_margin_percent, clock, answers[k]),
               api_key, time_margin_percent, clock, answers)

\* db.commit() after the loop: the pending inserts follow the rows read
Committed(st) == st.working \o st.added

\* the table fetch_route_estimates leaves when both of its commits succeed
fetch_route_estimates(table, settings, api_key, clock, answers) ==
  IF SkipCycle(api_key, settings.routes) THEN table
  ELSE Committed(RunLoop(settings.routes, 1,
                         [working |-> SelectSeq(table, LAMBDA row : ~IsStale(row, settings.routes)),
                          added |-> <<>>, total_updated |-> 0, errors |-> <<>>],
                         api_key, settings.traffic_options.time_margin_percent, clock, answers))

TwiceInit ==
  /\ TRAFFIC_API_KEY = "key"
  /\ \E config \in TwiceConfigs :
       /\ user_settings = Some([NewSettings EXCEPT !.traffic_routes = config])
       /\ responses \in AnswerLists(config, Len(config))
  /\ rows = <<>>
  /\ first_rows = None
  /\ pc = "idle"
  /\ routes_config = <<>>
  /\ idx = 0
  /\ stale_routes = <<>>
  /\ working = <<>>
  /\ added = <<>>
  /\ total_updated = 0
  /\ errors = <<>>
  /\ outcomes = <<>>
  /\ calls = <<>>
  /\ result = NoResult
  /\ now = 0
  /\ NoUnitCall
  /\ NoServiceCall

\* fetch_route_estimates from its first line to its return
RunCycle ==
  /\ now' = now + 1
  /\ rows' = fetch_route_estimates(rows, get_active_traffic_settings(user_settings),
                                   TRAFFIC_API_KEY, now', responses)
  /\ UNCHANGED <<TRAFFIC_API_KEY, user_settings, pc, routes_config, idx, stale_routes,
                 working, added, total_updated, errors, outcomes, calls, result, responses>>
  /\ UNCHANGED <<unit_vars, service_vars>>

FirstRun ==
  /\ first_rows = None
  /\ RunCycle
  /\ first_rows' = Some(rows')

\* the same configuration, the same answers
SecondRun ==
  /\ first_rows # None
  /\ now = 1
  /\ RunCycle
  /\ UNCHANGED first_rows

TwiceNext ==
  \/ FirstRun
  \/ SecondRun

TwiceSpec == TwiceInit /\ [][TwiceNext]_vars

\* ---------------------------------------- the margin filter on its own
\* the travel times a candidate may carry: 600/650/690/800 and 100/115 put
\* candidates inside, at and outside a margin; 0 is the degenerate fastest time
TravelTimes == {Some(0), Some(100), Some(115), Some(600), Some(650), Some(690), Some(800)}

\* a candidate with the travel time t, or without one
TimedCandidate(t) ==
  [summary |-> [travelTimeInSeconds |-> t, trafficDelayInSeconds |-> None], sections |-> <<>>]

\* the candidate lists of n entries
RECURSIVE TimedLists(_)
TimedLists(n) ==
  IF n = 0 THEN {<<>>}
  ELSE {Append(c, TimedCandidate(t)) : c \in TimedLists(n - 1), t \in TravelTimes \cup {None}}

CandidateLists == UNION {TimedLists(n) : n \in 0..MaxCandidates}

\* time_margin_percent: none, the two bounds of the settings, the default
\* and one more than the default
Margins == {0, 5, 15, 16, 50}

\* the cycle at rest while a pure function is called on its own
CycleAtRest ==
  /\ TRAFFIC_API_KEY = ""
  /\ user_settings = None
  /\ rows = <<>>
  /\ pc = "idle"
  /\ routes_config = <<>>
  /\ idx = 0
  /\ stale_routes = <<>>
  /\ working = <<>>
  /\ added = <<>>
  /\ total_updated = 0
  /\ errors = <<>>
  /\ outcomes = <<>>
  /\ calls = <<>>
  /\ result = NoResult
  /\ now = 0
  /\ NoReplay

cycle_vars == <<TRAFFIC_API_KEY, user_settings, rows, pc, routes_config, idx, stale_routes,
                working, added, total_updated, errors, outcomes, calls, result, now>>

MarginInit ==
  /\ CycleAtRest
  /\ NoServiceCall
  /\ candidates \in CandidateLists
  /\ margin \in Margins
  /\ viable = None
  /\ viable_before = None
  /\ main_roads_list = None
  /\ tomtom_route = NoRoute
  /\ extracted = None

\* routes_within_time_margin(candidates, margin)
Filter ==
  /\ viable = None
  /\ viable' = Some(routes_within_time_margin(candidates, margin))
  /\ UNCHANGED <<candidates, margin, viable_before, main_roads_list, tomtom_route, extracted>>
  /\ UNCHANGED <<cycle_vars, twice_vars, service_vars>>

\* the same candidates filtered again with another margin
Refilter ==
  /\ viable # None
  /\ \E m \in Margins \ {margin} :
       /\ margin' = m
       /\ viable' = Some(routes_within_time_margin(candidates, m))
  /\ viable_before' = Some([margin |-> margin, indices |-> viable[1]])
  /\ UNCHANGED <<candidates, main_roads_list, tomtom_route, extracted>>
  /\ UNCHANGED <<cycle_vars, twice_vars, service_vars>>

MarginNext ==
  \/ Filter
  \/ Refilter

MarginSpec == MarginInit /\ [][MarginNext]_vars

\* ---------------------------------------- the road extractor on its own
Plain(text) == [is_dict |-> FALSE, text |-> text]

Dict(text) == [is_dict |-> TRUE, text |-> text]

Section(type, start, end, street, numbers) ==
  [sectionType |-> type, startPointIndex |-> start, endPointIndex |-> end,
   streetName |-> street, roadNumbers |-> numbers]

\* the sections a route may carry: long and short important stretches, with
\* a street name, with road numbers (as dicts or strings, up to three), with
\* both or with neither; a stretch of exactly 20 points; the same street in
\* another case; a long section of another type
RouteSections ==
  { Section("IMPORTANT_ROAD_STRETCH", 0, 50, Plain("Main St"), <<>>),
    Section("IMPORTANT_ROAD_STRETCH", 50, 150, Plain(""),
            <<Dict("I-93"), Dict("US-1"), Dict("RT-2")>>),
    Section("IMPORTANT_ROAD_STRETCH", 150, 160, Plain("Short Rd"), <<>>),
    Section("IMPORTANT_ROAD_STRETCH", 160, 180, Dict("Edge Rd"), <<>>),
    Section("IMPORTANT_ROAD_STRETCH", 180, 210, Plain("MAIN ST"), <<>>),
    Section("IMPORTANT_ROAD_STRETCH", 210, 235, Plain("Elm St"), <<Plain("i-93")>>),
    Section("IMPORTANT_ROAD_STRETCH", 235, 275, Plain(""), <<>>),
    Section("TRAFFIC", 0, 60, Plain("Side St"), <<Plain("RT-9")>>) }

RECURSIVE SectionLists(_)
SectionLists(n) ==
  IF n = 0 THEN {<<>>}
  ELSE {Append(l, sec) : l \in SectionLists(n - 1), sec \in RouteSections}

\* the turn-by-turn instructions a route may carry
Guidances ==
  { [instructions |-> <<>>],
    [instructions |-> <<[street |-> "Minor St", roadNumbers |-> <<>>]>>] }

RouteObjects ==
  {[guidance |-> g, sections |-> l] :
     g \in Guidances, l \in UNION {SectionLists(n) : n \in 0..MaxSections}}

ExtractInit ==
  /\ CycleAtRest
  /\ NoServiceCall
  /\ tomtom_route \in RouteObjects
  /\ extracted = None
  /\ candidates = <<>>
  /\ margin = 0
  /\ viable = None
  /\ viable_before = None
  /\ main_roads_list = None

\* extract_road_names_from_route(tomtom_route)
Extract ==
  /\ extracted = None
  /\ extracted' = Some(extract_road_names_from_route(tomtom_route))
  /\ UNCHANGED <<candidates, margin, viable, viable_before, main_roads_list, tomtom_route>>
  /\ UNCHANGED <<cycle_vars, twice_vars, service_vars>>

ExtractNext == Extract

ExtractSpec == ExtractInit /\ [][ExtractNext]_vars

\* --------------------------------------- the road aggregator on its own
MainStRt125 ==
  <<Section("IMPORTANT_ROAD_STRETCH", 0, 50, Plain("Main St"), <<>>),
    Section("IMPORTANT_ROAD_STRETCH", 50, 100, Plain(""), <<Dict("Rt 125")>>)>>

MainSt == <<Section("IMPORTANT_ROAD_STRETCH", 0, 60, Plain("Main St"), <<>>)>>

MainStI93 ==
  <<Section("IMPORTANT_ROAD_STRETCH", 0, 40, Plain("MAIN ST"), <<>>),
    Section("IMPORTANT_ROAD_STRETCH", 40, 100, Plain(""), <<Dict("I-93")>>)>>

\* the candidates a routing answer may list: 600 s and 610 s are both 10
\* minutes, 650 s is within 15% of them and 800 s is not
RoadCandidates ==
  { Candidate(600, 60, MainStRt125),
    Candidate(600, 0, MainSt),
    Candidate(610, 0, MainSt),
    Candidate(650, 0, MainSt),
    Candidate(650, 120, MainStI93),
    Candidate(800, 0, MainStI93) }

RECURSIVE RoadCandidateLists(_)
RoadCandidateLists(n) ==
  IF n = 0 THEN {<<>>}
  ELSE {Append(l, c) : l \in RoadCandidateLists(n - 1), c \in RoadCandidates}

\* the incident notes of the primary route
PrimaryNotes == {None, Some("Accident: Rt 125 (+5min)")}

AggregateInit ==
  /\ CycleAtRest
  /\ NoServiceCall
  /\ candidates \in UNION {RoadCandidateLists(n) : n \in 1..MaxCandidates}
  /\ margin \in {DefaultTimeMarginPercent, 50}
  /\ viable = None
  /\ viable_before = None
  /\ main_roads_list = None
  /\ tomtom_route = NoRoute
  /\ extracted = None

\* aggregate_main_roads(candidates, within_indices, ...) as the cycle calls
\* it, on the indices the margin filter returned
Aggregate ==
  /\ viable # None
  /\ main_roads_list = None
  /\ \E primary_notes \in PrimaryNotes :
       main_roads_list' = Some(aggregate_main_roads(candidates, viable[1], None, primary_notes))
  /\ UNCHANGED <<candidates, margin, viable, viable_before, tomtom_route, extracted>>
  /\ UNCHANGED <<cycle_vars, twice_vars, service_vars>>

AggregateNext ==
  \/ Filter
  \/ Aggregate

AggregateSpec == AggregateInit /\ [][AggregateNext]_vars

\* ------------------------------------------------------------ properties
\* the names of the entries of a route configuration
RouteNames(config) == {config[k].name : k \in 1..Len(config)}

\* the route list a cycle started now would work on
EffectiveRoutes == get_active_traffic_settings(user_settings).routes

\* the calls of the latest iteration to one provider for one endpoint
CallsTo(api, endpoint) ==
  {k \in 1..Len(calls) : calls[k].api = api /\ calls[k].endpoint = endpoint}

\* C1 as stated: after every refresh cycle that returns, whatever the
\* configuration (an empty route list and a missing API key included), every
\* persisted row has a name that is present in the current route configuration
C1StaleRowsDeletedAlways ==
  pc = "returned" =>
    \A k \in 1..Len(rows) : rows[k].name \in RouteNames(routes_config)

\* C1 amended: after every refresh cycle that returns and that ran with an API
\* key and a non-empty route list, every persisted row has a name that is
\* present in the route configuration
C1StaleRowsDeleted ==
  pc = "returned" /\ TRAFFIC_API_KEY # "" /\ routes_config # <<>> =>
    \A k \in 1..Len(rows) : rows[k].name \in RouteNames(routes_config)

\* a cycle with a key and routes has returned after deleting a stale row and
\* keeping or writing another
C1Witness ==
  /\ pc = "returned"
  /\ TRAFFIC_API_KEY # ""
  /\ routes_config # <<>>
  /\ stale_routes # <<>>
  /\ rows # <<>>

\* C2: there is at most one persisted row per route name
C2OneRowPerName ==
  \A i, j \in 1..Len(rows) : rows[i].name = rows[j].name => i = j

\* C3: after a cycle that updated a route and committed, the persisted origin
\* and destination of the route's row are the raw strings of the current
\* configuration entry with that name
C3RawStringsOfCurrentConfig ==
  pc = "returned" /\ result.kind = "committed" =>
    \A k \in 1..Len(routes_config) :
      outcomes[k] = "updated" =>
        \A i \in 1..Len(rows) :
          rows[i].name = routes_config[k].name =>
            /\ rows[i].origin = routes_config[k].origin
            /\ rows[i].destination = routes_config[k].destination

\* a step keeps every stored zone of a row that stays
C4ZoneKept ==
  \A n \in {rows[k].name : k \in 1..Len(rows)} :
    LET k == QueryFirst(rows, n)
        k2 == QueryFirst(rows', n)
    IN k2 # 0 =>
         /\ TruthyStr(rows[k].origin_zone) => rows'[k2].origin_zone = rows[k].origin_zone
         /\ TruthyStr(rows[k].dest_zone) => rows'[k2].dest_zone = rows[k].dest_zone

\* the iteration just made issued no zone lookup for an endpoint whose zone
\* is stored
C4NoLookup ==
  pc = "routes" /\ idx > 1 =>
    LET k == QueryFirst(rows, routes_config[idx - 1].name)
    IN k # 0 =>
         /\ TruthyStr(rows[k].origin_zone) => CallsTo("zone", "origin") = {}
         /\ TruthyStr(rows[k].dest_zone) => CallsTo("zone", "destination") = {}

\* C4: once the persisted origin_zone (dest_zone) of a route that stays in the
\* configuration is non-empty, no step changes it and no iteration issues a
\* zone lookup for that endpoint, whatever the zone provider would answer
C4StoredZoneNeverReplaced == [][C4ZoneKept /\ C4NoLookup']_vars

\* a route whose two zones are stored has been updated again
C4Witness ==
  /\ pc = "routes"
  /\ idx > 1
  /\ outcomes[idx - 1] = "updated"
  /\ LET k == QueryFirst(rows, routes_config[idx - 1].name)
     IN k # 0 /\ TruthyStr(rows[k].origin_zone) /\ TruthyStr(rows[k].dest_zone)

\* a cycle starts without an API key or with an empty effective route list:
\* it returns (0, []), calls no provider and leaves the rows as they are
C5Step ==
  now' = now + 1 /\ (TRAFFIC_API_KEY = "" \/ EffectiveRoutes = <<>>) =>
    /\ pc' = "returned"
    /\ result'.kind # "raised"
    /\ result'.count = 0
    /\ result'.errors = <<>>
    /\ calls' = <<>>
    /\ rows' = rows

\* C5: without an API key or with an empty effective route list a refresh
\* cycle is a no-op: it returns (0, []), makes no provider call and leaves
\* every persisted row unchanged
C5NoOp == [][C5Step]_vars

\* a cycle without key or routes has returned while rows are stored
C5Witness ==
  /\ pc = "returned"
  /\ TRAFFIC_API_KEY = "" \/ routes_config = <<>>
  /\ rows # <<>>

\* what the providers' answers look like when the request failed
GeocodeFailed(resp) == resp.kind # "ok" \/ resp.results = <<>>

RoutingFailed(resp) == resp.kind = "exception" \/ resp.status # 200

IncidentsFailed(resp) == resp.kind # "ok"

\* the latest iteration asked the provider and the request failed
FailedCall(api, endpoint, Failed(_)) ==
  \E k \in CallsTo(api, endpoint) : Failed(calls[k].resp)

\* a step that is one iteration of the loop over the routes
Iteration == pc = "routes" /\ idx' = idx + 1

\* the iteration leaves the session's rows and the committed rows alone
RowsUntouched == working' = working /\ added' = added /\ rows' = rows

\* an iteration whose geocoding of the origin (destination) failed
C6Step ==
  Iteration =>
    /\ FailedCall("geocode", "origin", GeocodeFailed)' =>
         /\ errors' = Append(errors, "Could not resolve origin: " \o routes_config[idx].origin)
         /\ RowsUntouched
         /\ CallsTo("routing", "route")' = {}
         /\ pc' = "routes"
    /\ FailedCall("geocode", "destination", GeocodeFailed)' =>
         /\ errors' = Append(errors, "Could not resolve destination: "
                                       \o routes_config[idx].destination)
         /\ RowsUntouched
         /\ CallsTo("routing", "route")' = {}
         /\ pc' = "routes"

\* C6: when the geocoding of an address origin fails (empty results, non-200,
\* transport error) the iteration appends "Could not resolve origin: <input>",
\* touches no row, issues no routing request and the loop goes on; the same
\* for the destination with "Could not resolve destination: <input>"
C6GeocodeFailureSkipsRoute == [][C6Step]_vars

\* the geocoding of the origin of the first route failed, its stored row is
\* there, and another route is still to be processed
C6Witness ==
  /\ pc = "routes"
  /\ idx = 2
  /\ idx <= Len(routes_config)
  /\ FailedCall("geocode", "origin", GeocodeFailed)
  /\ QueryFirst(rows, routes_config[1].name) # 0

\* an iteration whose routing request failed
C7Step ==
  Iteration /\ FailedCall("routing", "route", RoutingFailed)' =>
    /\ Len(errors') = Len(errors) + 1
    /\ SubSeq(errors', 1, Len(errors)) = errors
    /\ Contains(errors'[Len(errors')], routes_config[idx].name)
    /\ total_updated' = total_updated
    /\ RowsUntouched

\* C7: when the routing request of a route answers non-200 or raises a
\* transport error, the iteration records one message for the route, does not
\* count it and leaves every stored field of its row as it was
C7RoutingFailureKeepsRow == [][C7Step]_vars

\* the routing request failed for a route whose row was stored by an
\* earlier cycle
C7Witness ==
  /\ pc = "routes"
  /\ idx > 1
  /\ FailedCall("routing", "route", RoutingFailed)
  /\ LET k == QueryFirst(rows, routes_config[idx - 1].name)
     IN k # 0 /\ rows[k].fetched_at # None

\* the row a session (its view of the table, its pending inserts) holds for
\* the route the latest iteration updated
SessionRow(view, pending, name) ==
  LET k == QueryFirst(view, name)
  IN IF k # 0 THEN view[k] ELSE pending[Len(pending)]

\* an iteration whose incidents request failed records a message and skips
\* the route
C8StepAsStated ==
  Iteration /\ FailedCall("incidents", "route", IncidentsFailed)' =>
    /\ Len(errors') = Len(errors) + 1
    /\ total_updated' = total_updated
    /\ RowsUntouched

\* C8 as stated: when the incidents request of a route fails, the failure is
\* recorded as a message in the error list, the route is skipped and its
\* stored values are left untouched
C8IncidentFailureSkipsRoute == [][C8StepAsStated]_vars

\* an iteration whose incidents request failed updates the route all the same
C8Step ==
  Iteration /\ FailedCall("incidents", "route", IncidentsFailed)' =>
    /\ errors' = errors
    /\ total_updated' = total_updated + 1
    /\ outcomes'[idx] = "updated"
    /\ SessionRow(working', added', routes_config[idx].name).traffic_notes = Some("")
    /\ SessionRow(working', added', routes_config[idx].name).fetched_at = Some(now)

\* C8 amended: when the incidents request of a route fails (non-200 or
\* transport exception), no message is recorded for it and the route is not
\* skipped: it is updated and counted, and its traffic_notes become empty
C8IncidentFailureTolerated == [][C8Step]_vars

\* the incidents request failed for a route whose stored notes were not empty
C8Witness ==
  /\ pc = "routes"
  /\ idx > 1
  /\ FailedCall("incidents", "route", IncidentsFailed)
  /\ LET k == QueryFirst(rows, routes_config[idx - 1].name)
     IN k # 0 /\ rows[k].traffic_notes = Some("Clear conditions")

\* the ways an iteration ends in an error message
ErrorOutcomes ==
  {"origin_unresolved", "destination_unresolved", "routing_non200", "routing_exception"}

\* every route updated so far in the cycle has its fresh row in the table
UpdatedIn(table) ==
  \A k \in 1..Len(outcomes) :
    outcomes[k] = "updated" =>
      \E i \in 1..Len(table) :
        table[i].name = routes_config[k].name /\ table[i].fetched_at = Some(now)

OutcomesIn(S) == {k \in 1..Len(outcomes) : outcomes[k] \in S}

\* C9 as stated: an error on one route (a malformed entry included) never
\* prevents the commit of the routes updated in the same cycle, and every
\* such error is returned in the error list
C9EveryErrorReported ==
  /\ pc = "routes" => UpdatedIn(working \o added)
  /\ pc = "returned" /\ result.kind = "committed" =>
       /\ UpdatedIn(rows)
       /\ result.count = Cardinality(OutcomesIn({"updated"}))
       /\ Len(result.errors) = Cardinality(OutcomesIn(ErrorOutcomes \cup {"incomplete"}))

\* C9 amended: an unresolvable address or a failed routing request of one
\* route never prevents the commit of the routes updated before and after it,
\* and is returned in the error list; the cycle ends without its commit only
\* when persistence fails; an entry without origin or destination is skipped
\* without a message
C9ErrorsDoNotPreventCommit ==
  /\ pc = "routes" =>
       /\ UpdatedIn(working \o added)
       /\ Len(errors) = Cardinality(OutcomesIn(ErrorOutcomes))
  /\ pc = "returned" /\ result.kind # "skipped" => Len(outcomes) = Len(routes_config)
  /\ pc = "returned" /\ result.kind = "committed" =>
       /\ UpdatedIn(rows)
       /\ result.count = Cardinality(OutcomesIn({"updated"}))
       /\ result.errors = errors
       /\ Len(result.errors) = Cardinality(OutcomesIn(ErrorOutcomes))
  /\ result.kind = "fatal" =>
       result.errors = <<"Fatal route fetch error: database is locked">>
  /\ result.kind = "raised" => outcomes = <<>>

\* a cycle committed a route that was updated after another route had failed
C9Witness ==
  /\ pc = "returned"
  /\ result.kind = "committed"
  /\ \E i, j \in 1..Len(outcomes) :
       i < j /\ outcomes[i] \in ErrorOutcomes /\ outcomes[j] = "updated"

\* C10: a refresh cycle whose stale-route deletion fails returns
\* (0, [fatal message]) to its caller; it never ends by raising
C10StaleDeletionFailureReturned ==
  pc \in {"returned", "raised"} =>
    /\ result.kind \in {"skipped", "committed", "fatal"}
    /\ result.kind = "fatal" => result.count = 0 /\ Len(result.errors) = 1

\* a table with the fetch times left out
WithoutFetchedAt(table) == [k \in 1..Len(table) |-> [table[k] EXCEPT !.fetched_at = None]]

\* C11: a second run of the cycle with the same configuration and the same
\* provider answers leaves every row as the first run left it, fetched_at
\* apart, and adds no row.
C11SecondRunChangesNothing ==
  now = 2 => WithoutFetchedAt(rows) = WithoutFetchedAt(first_rows[1])

\* the routing answer of the latest iteration
RoutingAnswer == calls[CHOOSE k \in CallsTo("routing", "route") : TRUE].resp

\* m is t seconds rounded to minutes
NearestMinute(m, t) == -30 <= 60 * m - t /\ 60 * m - t <= 30

\* the latest iteration updated its route
Updated == pc = "routes" /\ idx > 1 /\ outcomes[idx - 1] = "updated"

\* C12: a route that is updated gets, as current_duration_minutes and
\* delay_minutes, the travel time and the traffic delay of the first returned
\* candidate rounded to minutes, whatever the other candidates are, and as
\* typical_duration_minutes their difference.
C12FirstCandidateDurations ==
  Updated =>
    LET first == RoutingAnswer.routes[1].summary
        row == SessionRow(working, added, routes_config[idx - 1].name)
    IN /\ NearestMinute(row.current_duration_minutes[1], first.travelTimeInSeconds[1])
       /\ NearestMinute(row.delay_minutes[1], first.trafficDelayInSeconds[1])
       /\ row.typical_duration_minutes[1] =
            row.current_duration_minutes[1] - row.delay_minutes[1]

\* a route was updated from an answer whose first candidate is slower than
\* another one and outside the margin, and stores 25, 5 and 20 minutes
C12Witness ==
  /\ Updated
  /\ Len(RoutingAnswer.routes) = 2
  /\ RoutingAnswer.routes[2].summary.travelTimeInSeconds[1]
       < RoutingAnswer.routes[1].summary.travelTimeInSeconds[1]
  /\ LET row == SessionRow(working, added, routes_config[idx - 1].name)
     IN /\ row.alternatives_within_margin = Some(1)
        /\ row.current_duration_minutes = Some(25)
        /\ row.delay_minutes = Some(5)
        /\ row.typical_duration_minutes = Some(20)

\* the 0-based indices of the candidates that carry a travel time
Timed == {i \in 0..(Len(candidates) - 1) : candidates[i + 1].summary.travelTimeInSeconds # None}

TimeOf(i) == candidates[i + 1].summary.travelTimeInSeconds[1]

\* no candidate with a time is faster than i
Fastest(i) == \A j \in Timed : TimeOf(i) <= TimeOf(j)

\* the filter ran on candidates whose fastest known time is positive
FilteredPositive == viable # None /\ Timed # {} /\ \A i \in Timed : TimeOf(i) > 0

\* the indices the filter returned
Returned == {viable[1][k] : k \in 1..Len(viable[1])}

\* C13: when the fastest known travel time is positive, the filter returns
\* exactly the candidates with a known time t <= fastest * (1 + margin / 100),
\* the boundary included.
C13InclusiveCeiling ==
  FilteredPositive =>
    Returned = {i \in Timed : \E f \in Timed :
                  Fastest(f) /\ TimeOf(i) * 100 <= TimeOf(f) * (100 + margin)}

\* the candidates whose travel time is the least known one
TiedAtMinimum == {i \in Timed : Fastest(i)}

\* C14 as stated: for every candidate list, margin 0 returns exactly the
\* indices of the candidates whose travel time equals the minimum known
\* travel time.
C14ZeroMarginKeepsTiesAlways ==
  (viable # None /\ margin = 0) => Returned = TiedAtMinimum

\* C14 amended: when the fastest known travel time is positive, margin 0
\* returns exactly the indices of the candidates tied at the minimum known
\* travel time; a fastest time of 0 lets every candidate through and a
\* non-empty list without any travel time gives index 0.
C14ZeroMarginKeepsTies ==
  /\ (FilteredPositive /\ margin = 0) => Returned = TiedAtMinimum
  /\ (viable # None /\ margin = 0 /\ Timed # {} /\ ~FilteredPositive) =>
       Returned = 0..(Len(candidates) - 1)
  /\ (viable # None /\ margin = 0 /\ Timed = {} /\ candidates # <<>>) => Returned = {0}

\* 600/600/800 filtered with margin 0: the two tied candidates, not the third
C14Witness ==
  /\ FilteredPositive
  /\ margin = 0
  /\ Len(candidates) = 3
  /\ TiedAtMinimum = {0, 1}
  /\ viable = Some(<<0, 1>>)

\* the indices in a list of them
IndexSet(indices) == {indices[k] : k \in 1..Len(indices)}

\* C15: for the same candidates, a margin that is not smaller returns a set
\* of indices that is not smaller.
C15MonotoneInMargin ==
  (viable_before # None /\ viable_before[1].margin <= margin) =>
    IndexSet(viable_before[1].indices) \subseteq Returned

\* 600/650/800 filtered with 15% and then with 50%: [0, 1] grew to [0, 1, 2]
C15Witness ==
  /\ viable_before = Some([margin |-> 15, indices |-> <<0, 1>>])
  /\ margin = 50
  /\ viable = Some(<<0, 1, 2>>)
  /\ Len(candidates) = 3

\* C16: the result for a non-empty candidate list includes index 0,
\* whatever the margin.
C16IndexZeroIncluded ==
  (viable # None /\ candidates # <<>>) => 0 \in Returned

\* C17 as stated: whenever a candidate has a known travel time, no index of
\* a candidate without a travel time is returned, whatever the known times.
C17UntimedNeverReturnedAlways ==
  (viable # None /\ Timed # {}) => Returned \subseteq Timed

\* C17 amended: whenever the fastest known travel time is positive, no index
\* of a candidate without a travel time is returned; with a fastest known
\* time of 0 every index is returned, the untimed candidates included.
C17UntimedNeverReturned ==
  /\ FilteredPositive => Returned \subseteq Timed
  /\ (viable # None /\ Timed # {} /\ ~FilteredPositive) =>
       Returned = 0..(Len(candidates) - 1)

\* a list with a timed candidate within the margin and an untimed one
C17Witness ==
  /\ FilteredPositive
  /\ Len(candidates) = 3
  /\ Timed = {0, 2}
  /\ viable = Some(<<0, 2>>)

\* an important road stretch of 20 points or more
Qualifying(section) ==
  /\ section.sectionType = "IMPORTANT_ROAD_STRETCH"
  /\ section.endPointIndex - section.startPointIndex >= 20

\* the texts of the first two road numbers of a section, joined
NumbersLabel(section) ==
  IF Len(section.roadNumbers) = 1 THEN section.roadNumbers[1].text
  ELSE section.roadNumbers[1].text \o ", " \o section.roadNumbers[2].text

\* the names a section could lend to a road
Labels(section) ==
  {section.streetName.text}
    \cup (IF section.roadNumbers = <<>> THEN {} ELSE {NumbersLabel(section)})

\* the sections a returned road may come from: those that qualify, carry the
\* name in either case and span the length
SectionsOf(road) ==
  {j \in 1..Len(tomtom_route.sections) :
     /\ Qualifying(tomtom_route.sections[j])
     /\ \E label \in Labels(tomtom_route.sections[j]) : Lower(label) = Lower(road.name)
     /\ tomtom_route.sections[j].endPointIndex - tomtom_route.sections[j].startPointIndex
          = road.length_estimate}

\* C18: every returned road has a length estimate of 20 or more and comes
\* from an important road stretch of 20 points or more; names carried only by
\* sections of another type, by shorter stretches or by guidance
\* instructions are not returned.
C18OnlyLongImportantStretches ==
  extracted # None =>
    \A k \in 1..Len(extracted[1]) :
      /\ extracted[1][k].length_estimate >= 20
      /\ SectionsOf(extracted[1][k]) # {}

\* a route with guidance, a short stretch, a section of another type and a
\* long important stretch: only the last one is returned
C18Witness ==
  /\ extracted = Some(<<[name |-> "Main St", length_estimate |-> 50]>>)
  /\ tomtom_route.guidance.instructions # <<>>
  /\ \E j \in 1..Len(tomtom_route.sections) :
       tomtom_route.sections[j].sectionType # "IMPORTANT_ROAD_STRETCH"
  /\ \E j \in 1..Len(tomtom_route.sections) :
       /\ tomtom_route.sections[j].sectionType = "IMPORTANT_ROAD_STRETCH"
       /\ tomtom_route.sections[j].streetName.text = "Short Rd"

\* the name the claim gives a section: its first two road numbers if it has
\* any, its street name otherwise
ExpectedName(section) ==
  IF section.roadNumbers # <<>> THEN NumbersLabel(section) ELSE section.streetName.text

\* the qualifying sections that have a name
Named ==
  {j \in 1..Len(tomtom_route.sections) :
     Qualifying(tomtom_route.sections[j]) /\ ExpectedName(tomtom_route.sections[j]) # ""}

\* the first named section with the name of section j, case ignored
FirstOccurrence(j) ==
  \A i \in Named :
    Lower(ExpectedName(tomtom_route.sections[i])) = Lower(ExpectedName(tomtom_route.sections[j]))
      => j <= i

\* C19: every qualifying section is named by its first two road numbers
\* joined by ", " if it has road numbers and by its street name otherwise; of
\* the sections with the same name, case ignored, the first one is returned
\* and no other; the result is ordered by length estimate, longest first.
C19NamedDedupedSorted ==
  extracted # None =>
    LET roads_out == extracted[1]
        sec(j) == tomtom_route.sections[j]
    IN /\ \A j \in Named :
            FirstOccurrence(j) =>
              \E k \in 1..Len(roads_out) :
                /\ roads_out[k].name = ExpectedName(sec(j))
                /\ roads_out[k].length_estimate = sec(j).endPointIndex - sec(j).startPointIndex
       /\ \A k \in 1..Len(roads_out) :
            \E j \in Named : FirstOccurrence(j) /\ roads_out[k].name = ExpectedName(sec(j))
       /\ \A k1, k2 \in 1..Len(roads_out) :
            Lower(roads_out[k1].name) = Lower(roads_out[k2].name) => k1 = k2
       /\ \A k \in 1..(Len(roads_out) - 1) :
            roads_out[k].length_estimate >= roads_out[k + 1].length_estimate

\* three road numbers cut to two, a street name repeated in another case and
\* the longer stretch put first
C19Witness ==
  /\ Len(tomtom_route.sections) = 3
  /\ tomtom_route.sections[1].streetName.text = "Main St"
  /\ tomtom_route.sections[2].streetName.text = "MAIN ST"
  /\ Len(tomtom_route.sections[3].roadNumbers) = 3
  /\ extracted = Some(<<[name |-> "I-93, US-1", length_estimate |-> 100],
                        [name |-> "Main St", length_estimate |-> 50]>>)

\* the entries the aggregator returned
Alternatives == main_roads_list[1]

\* the entries marked as fastest
MarkedFastest == {k \in 1..Len(Alternatives) : Alternatives[k].is_fastest}

\* the least travel_time_min of the entries
LeastMinutes == SetMin({Alternatives[k].travel_time_min : k \in 1..Len(Alternatives)})

\* every entry shows the minutes above the least travel_time_min
DeltasRight ==
  \A k \in 1..Len(Alternatives) :
    Alternatives[k].time_vs_fastest = Alternatives[k].travel_time_min - LeastMinutes

\* the entries are the viable candidates with their times rounded to minutes
EntriesOfViable ==
  /\ Len(Alternatives) = Len(viable[1])
  /\ \A i \in Returned :
       \E k \in 1..Len(Alternatives) : NearestMinute(Alternatives[k].travel_time_min, TimeOf(i))

\* C20 as stated: exactly one entry is marked is_fastest when the travel
\* times of the viable candidates, in seconds, are pairwise distinct, all the
\* entries tied at the minimum are marked when times coincide, and
\* time_vs_fastest is travel_time_min minus the least travel_time_min.
C20OneFastestForDistinctSeconds ==
  (main_roads_list # None /\ Alternatives # <<>>) =>
    /\ (\A i, j \in Returned : TimeOf(i) = TimeOf(j) => i = j) => Cardinality(MarkedFastest) = 1
    /\ MarkedFastest = {k \in 1..Len(Alternatives) : Alternatives[k].travel_time_min = LeastMinutes}
    /\ DeltasRight

\* C20 amended: an entry is marked is_fastest exactly when its
\* travel_time_min (the travel time rounded to whole minutes) is the least
\* one; so exactly one entry is marked when the rounded times are pairwise
\* distinct, and candidates whose times differ in seconds but not in minutes
\* are all marked; time_vs_fastest is travel_time_min minus the least
\* travel_time_min.
C20FastestByMinutes ==
  (main_roads_list # None /\ Alternatives # <<>>) =>
    /\ EntriesOfViable
    /\ MarkedFastest = {k \in 1..Len(Alternatives) : Alternatives[k].travel_time_min = LeastMinutes}
    /\ (\A k1, k2 \in 1..Len(Alternatives) :
          Alternatives[k1].travel_time_min = Alternatives[k2].travel_time_min => k1 = k2)
         => Cardinality(MarkedFastest) = 1
    /\ DeltasRight

\* 650 s, 610 s and 600 s within 50%: the entries of 10 and 10 minutes are
\* both marked, the one of 11 minutes is not and shows 1 minute more
C20Witness ==
  /\ main_roads_list # None
  /\ Len(candidates) = 3
  /\ TimeOf(0) = 650 /\ TimeOf(1) = 610 /\ TimeOf(2) = 600
  /\ Len(Alternatives) = 3
  /\ MarkedFastest = {1, 2}
  /\ Alternatives[3].travel_time_min = 11
  /\ Alternatives[3].time_vs_fastest = 1

\* the road names, in lower case, of the important stretches of candidate i
RoadsOfCandidate(i) ==
  {Lower(ExpectedName(candidates[i + 1].sections[j])) :
     j \in {n \in 1..Len(candidates[i + 1].sections) :
              Qualifying(candidates[i + 1].sections[n])
                /\ ExpectedName(candidates[i + 1].sections[n]) # ""}}

\* the road names every viable candidate has
SharedByAll == {rd \in UNION {RoadsOfCandidate(i) : i \in Returned} :
                  \A i \in Returned : rd \in RoadsOfCandidate(i)}

\* C21: when more than one alternative is viable, no entry has among its
\* key_roads a road name that, case ignored, every viable alternative has.
C21NoSharedKeyRoad ==
  (main_roads_list # None /\ Len(Alternatives) > 1) =>
    \A k \in 1..Len(Alternatives) :
      \A n \in 1..Len(Alternatives[k].key_roads) :
        Lower(Alternatives[k].key_roads[n]) \notin SharedByAll

\* C22: the returned list is sorted ascending by travel_time_min and the
\* route_num of each entry is its 1-based position in that list, in whatever
\* order the provider listed the viable candidates.
C22SortedAndNumbered ==
  main_roads_list # None =>
    /\ \A k \in 1..(Len(Alternatives) - 1) :
         Alternatives[k].travel_time_min <= Alternatives[k + 1].travel_time_min
    /\ \A k \in 1..Len(Alternatives) : Alternatives[k].route_num = k

\* ------------------------------------- the settings resolver on its own
\* the locals of a cycle while no cycle runs
LoopAtRest ==
  /\ rows = <<>>
  /\ pc = "idle"
  /\ routes_config = <<>>
  /\ idx = 0
  /\ stale_routes = <<>>
  /\ working = <<>>
  /\ added = <<>>
  /\ total_updated = 0
  /\ errors = <<>>
  /\ outcomes = <<>>
  /\ calls = <<>>
  /\ result = NoResult
  /\ now = 0

\* a key of the traffic_options dict: missing, or an integer
OptionValues(S) == {None} \cup {Some(n) : n \in S}

\* below, at and above the bounds 1 and 5, and the default
MaxAlternativesValues == {-1, 0, 1, 3, 5, 6}

\* below, at and above the bounds 5 and 50, and the default
TimeMarginValues == {-5, 4, 5, 15, 50, 51}

\* UserSettings.traffic_options: NULL, or a dict (the empty dict has no key)
TrafficOptionsValues ==
  {None} \cup {Some([max_alternatives |-> a, time_margin_percent |-> t]) :
                 a \in OptionValues(MaxAlternativesValues),
                 t \in OptionValues(TimeMarginValues)}

\* a nullable text column: NULL, empty, or filled
LocationNames == {None, Some(""), Some("Boston, MA")}

ZoneCodeValues == {None, Some(""), Some("MAZ014")}

\* db.query(UserSettings).first(): no row, or a row
SettingsRows ==
  {None} \cup {Some([location_name |-> n, nws_zone_codes |-> z,
                     traffic_options |-> o, traffic_routes |-> <<>>]) :
                 n \in LocationNames, z \in ZoneCodeValues, o \in TrafficOptionsValues}

SettingsInit ==
  /\ TRAFFIC_API_KEY = ""
  /\ user_settings \in SettingsRows
  /\ LoopAtRest
  /\ NoReplay
  /\ NoUnitCall
  /\ NoIncidentCall
  /\ NoCaller
  /\ NoAlertPoll
  /\ NoSettingsCall

\* get_active_traffic_settings(db)
ResolveSettings ==
  /\ resolved = None
  /\ resolved' = Some(get_active_traffic_settings(user_settings))
  /\ UNCHANGED <<max_alternatives_param, incident_vars, caller_vars, alert_vars>>
  /\ UNCHANGED <<cycle_vars, twice_vars, unit_vars>>

\* fetch_route_estimates from the settings to the early return
RequestAlternatives ==
  /\ resolved # None
  /\ max_alternatives_param = None
  /\ max_alternatives_param' = Some(MaxAlternativesParam(resolved[1].traffic_options))
  /\ UNCHANGED <<resolved, incident_vars, caller_vars, alert_vars>>
  /\ UNCHANGED <<cycle_vars, twice_vars, unit_vars>>

SettingsNext ==
  \/ ResolveSettings
  \/ RequestAlternatives

SettingsSpec == SettingsInit /\ [][SettingsNext]_vars

\* the persisted value of a traffic_options key: None when the row, the dict
\* or the key is missing
PersistedMaxAlternatives ==
  IF user_settings = None \/ user_settings[1].traffic_options = None THEN None
  ELSE user_settings[1].traffic_options[1].max_alternatives

PersistedTimeMargin ==
  IF user_settings = None \/ user_settings[1].traffic_options = None THEN None
  ELSE user_settings[1].traffic_options[1].time_margin_percent

\* C23: whatever integers the persisted traffic_options hold, and when they
\* are missing, the resolved max_alternatives lies in 1..5 (3 when missing)
\* and the resolved time_margin_percent in 5..50 (15 when missing); the
\* alternatives parameter of the routing request lies in 0..4
C23OptionsClamped ==
  /\ resolved # None =>
       /\ resolved[1].traffic_options.max_alternatives \in 1..5
       /\ resolved[1].traffic_options.time_margin_percent \in 5..50
       /\ PersistedMaxAlternatives = None =>
            resolved[1].traffic_options.max_alternatives = 3
       /\ PersistedTimeMargin = None =>
            resolved[1].traffic_options.time_margin_percent = 15
  /\ max_alternatives_param # None => max_alternatives_param[1] \in 0..4

\* both persisted options lie outside their bounds and the request was built
C23Witness ==
  /\ PersistedMaxAlternatives = Some(6)
  /\ PersistedTimeMargin = Some(-5)
  /\ resolved # None
  /\ resolved[1].traffic_options.time_margin_percent = 5
  /\ max_alternatives_param = Some(4)

\* the row is missing or its zone codes are NULL or empty
NoPersistedZoneCodes ==
  user_settings = None \/ user_settings[1].nws_zone_codes \in {None, Some("")}

\* the row is missing or its location name is NULL or empty
NoRowOrNoLocationName ==
  user_settings = None \/ user_settings[1].location_name \in {None, Some("")}

\* C24: without persisted zone codes the resolver returns the environment
\* default exactly when there is no row or the row has no location name, and
\* null in every other such case
C24ZoneCodeFallback ==
  (resolved # None /\ NoPersistedZoneCodes) =>
    /\ resolved[1].zone_codes = Some(NWS_ZONE_CODES) <=> NoRowOrNoLocationName
    /\ ~NoRowOrNoLocationName => resolved[1].zone_codes = None

\* a row with a location name and empty zone codes resolved to null
C24Witness ==
  /\ user_settings # None
  /\ user_settings[1].nws_zone_codes = Some("")
  /\ user_settings[1].location_name = Some("Boston, MA")
  /\ resolved # None
  /\ resolved[1].zone_codes = None

\* ------------------------------------- the incident summary on its own
MaxIncidents == 4

\* a delayed jam with a street, a closure with a road number and no delay,
\* an incident of an unknown category with neither
Jam == [iconCategory |-> 6, from |-> "Main St", roadNumbers |-> <<>>, delay |-> 300]

Closure == [iconCategory |-> 8, from |-> "", roadNumbers |-> <<"I-93">>, delay |-> 0]

Unknown == [iconCategory |-> 99, from |-> "", roadNumbers |-> <<>>, delay |-> 30]

RECURSIVE IncidentLists(_)
IncidentLists(n) ==
  IF n = 0 THEN {<<>>}
  ELSE {Append(l, inc) : l \in IncidentLists(n - 1), inc \in {Jam, Closure, Unknown}}

\* what the incidents provider answers: a failure, or a list of incidents
IncidentAnswers ==
  IncidentResponses \cup
  {[kind |-> "ok", incidents |-> l] : l \in UNION {IncidentLists(n) : n \in 0..MaxIncidents}}

IncidentInit ==
  /\ TRAFFIC_API_KEY \in ApiKeys
  /\ user_settings = None
  /\ LoopAtRest
  /\ NoReplay
  /\ NoUnitCall
  /\ NoSettingsCall
  /\ NoCaller
  /\ NoAlertPoll
  /\ incident_answer \in IncidentAnswers
  /\ notes = None

\* fetch_route_incidents(origin_lat, origin_lon, dest_lat, dest_lon)
Summarize ==
  /\ notes = None
  /\ notes' = Some(fetch_route_incidents(TRAFFIC_API_KEY, incident_answer))
  /\ UNCHANGED <<incident_answer, settings_vars, caller_vars, alert_vars>>
  /\ UNCHANGED <<cycle_vars, twice_vars, unit_vars>>

IncidentNext == Summarize

IncidentSpec == IncidentInit /\ [][IncidentNext]_vars

\* the lookup was attempted and the provider answered 200
Answered == TRAFFIC_API_KEY # "" /\ incident_answer.kind = "ok"

\* the text expected for an incident
ExpectedSummary(inc) ==
  CASE inc = Jam -> "Jam on Main St (+5min)"
    [] inc = Closure -> "Road Closed on I-93"
    [] inc = Unknown -> "Issue"

\* C25: the summary is "Clear conditions" exactly when the provider answered
\* with no incident, the empty string exactly when the lookup was not made or
\* failed, and otherwise the summaries of the first three incidents joined
\* by "; "
C25ThreeOutcomes ==
  notes # None =>
    /\ notes[1] = "Clear conditions" <=> (Answered /\ incident_answer.incidents = <<>>)
    /\ notes[1] = "" <=> ~Answered
    /\ (Answered /\ incident_answer.incidents # <<>>) =>
         notes[1] = JoinStr(SeqMap(ExpectedSummary, FirstN(incident_answer.incidents, 3)), "; ")

\* four incidents were answered and three of them summarized
C25Witness ==
  /\ Answered
  /\ Len(incident_answer.incidents) = 4
  /\ notes = Some("Jam on Main St (+5min); Road Closed on I-93; Issue")

\* ------------------------------------- the callers of a refresh
\* Each caller runs fetch_traffic_alerts with a database session of its own.
\* fetch_traffic_job runs in a worker thread of the background scheduler
\* (run_async finds no running loop there and calls asyncio.run), while
\* run_initial_fetch and refresh_data are tasks of the server's event loop
\* that give way to each other at every await.
\* in_flight[caller]: "idle", "estimating" (settings read, stale rows pruned,
\* awaiting the geocoding and routing providers), "found" or "created" (the
\* row of the route looked up in the session, awaiting the zone provider),
\* "polling" (the cycle committed, awaiting the alert provider), "done"
CallerInit ==
  /\ TRAFFIC_API_KEY = "key"
  /\ user_settings = Some([NewSettings EXCEPT !.traffic_routes = <<CoordsRoute>>])
  /\ LoopAtRest
  /\ NoReplay
  /\ NoUnitCall
  /\ NoSettingsCall
  /\ NoIncidentCall
  /\ NoAlertPoll
  /\ NoCaller

\* the caller calls fetch_traffic_alerts, which starts the route cycle
CallFetch(caller) ==
  /\ in_flight[caller] = "idle"
  /\ in_flight' = [in_flight EXCEPT ![caller] = "estimating"]
  /\ UNCHANGED <<settings_vars, incident_vars, alert_vars>>
  /\ UNCHANGED <<cycle_vars, twice_vars, unit_vars>>

\* the interval trigger fires; the scheduler runs one instance of a job
fetch_traffic_job == CallFetch("fetch_traffic_job")

\* the task created at startup reaches its traffic fetch
run_initial_fetch == CallFetch("run_initial_fetch")

\* POST /api/settings/refresh reaches its traffic fetch
refresh_data == CallFetch("refresh_data")

\* db.query(TrafficRoute).filter(TrafficRoute.name == name).first(), and
\* db.add of a new row when there is none
LookUpRoute ==
  /\ \E caller \in Callers :
       /\ in_flight[caller] = "estimating"
       /\ in_flight' = [in_flight EXCEPT ![caller] =
                          IF QueryFirst(rows, CoordsRoute.name) = 0
                          THEN "created" ELSE "found"]
  /\ UNCHANGED <<settings_vars, incident_vars, alert_vars>>
  /\ UNCHANGED <<cycle_vars, twice_vars, unit_vars>>

\* db.commit() after the loop: a created row is inserted, a found row updated
CommitRoutes ==
  /\ \E caller \in Callers :
       /\ in_flight[caller] \in {"found", "created"}
       /\ rows' = IF in_flight[caller] = "created"
                  THEN Append(rows, NewRoute(CoordsRoute.name, CoordsRoute.origin,
                                             CoordsRoute.destination))
                  ELSE rows
       /\ in_flight' = [in_flight EXCEPT ![caller] = "polling"]
  /\ UNCHANGED <<TRAFFIC_API_KEY, user_settings, pc, routes_config, idx, stale_routes,
                 working, added, total_updated, errors, outcomes, calls, result, now>>
  /\ UNCHANGED <<settings_vars, incident_vars, alert_vars>>
  /\ UNCHANGED <<twice_vars, unit_vars>>

\* fetch_traffic_alerts returns to its caller; the startup task ends
FinishFetch ==
  /\ \E caller \in Callers :
       /\ in_flight[caller] = "polling"
       /\ in_flight' = [in_flight EXCEPT ![caller] =
                          IF caller = "run_initial_fetch" THEN "done" ELSE "idle"]
  /\ UNCHANGED <<settings_vars, incident_vars, alert_vars>>
  /\ UNCHANGED <<cycle_vars, twice_vars, unit_vars>>

CallerNext ==
  \/ fetch_traffic_job
  \/ run_initial_fetch
  \/ refresh_data
  \/ LookUpRoute
  \/ CommitRoutes
  \/ FinishFetch

CallerSpec == CallerInit /\ [][CallerNext]_vars

\* the callers whose route cycle has started and not committed yet
InCycle == {caller \in Callers : in_flight[caller] \in {"estimating", "found", "created"}}

\* C26: at no time are two refresh cycles in flight, so no cycle looks up or
\* writes a route while another is between its lookup and its commit
C26CyclesSerialized ==
  /\ Cardinality(InCycle) <= 1
  /\ \A caller \in Callers :
       in_flight[caller] \in {"found", "created"} => InCycle = {caller}

\* ------------------------------------- the alert poll around the cycle
\* what the alert provider answers: a failure, or the number of new alerts
AlertResponses ==
  { [kind |-> "non200", features |-> 0],
    [kind |-> "exception", features |-> 0],
    [kind |-> "ok", features |-> 0],
    [kind |-> "ok", features |-> 1] }

\* the settings a poll can find: no row, or a row with a location and no zone codes
AlertSettings ==
  { None,
    Some([NewSettings EXCEPT !.location_name = Some("Boston, MA"), !.nws_zone_codes = None]) }

AlertInit ==
  /\ TRAFFIC_API_KEY \in ApiKeys
  /\ user_settings \in AlertSettings
  /\ LoopAtRest
  /\ NoReplay
  /\ NoUnitCall
  /\ NoServiceCall

\* fetch_route_estimates(db), called by fetch_traffic_alerts after the settings
RouteCycle ==
  /\ alerts_returned = None
  /\ \/ update_settings
     \/ StartCycle
     \/ ProcessNext
     \/ FinishCycle

\* `return 0`
BareCount == [kind |-> "int", count |-> 0, errors |-> <<>>]

\* `return count, errors`
CountAndErrors(count, messages) == [kind |-> "pair", count |-> count, errors |-> messages]

\* zones is not empty: the zone codes of the settings, the zones of the rows
HasZones(zone_codes, table) ==
  \/ TruthyStr(zone_codes)
  \/ \E k \in 1..Len(table) : TruthyStr(table[k].origin_zone) \/ TruthyStr(table[k].dest_zone)

\* fetch_traffic_alerts after the route cycle returned route_errors
AlertsAfter(route_errors, zone_codes, table, response) ==
  IF ~HasZones(zone_codes, table) THEN BareCount
  ELSE IF response.kind = "exception"
  THEN CountAndErrors(0, Append(route_errors,
                                "Traffic/Weather alert fetch error: Cannot connect to host"))
  ELSE IF response.kind = "non200" THEN BareCount
  ELSE CountAndErrors(IF response.features = 0 /\ table = <<>> THEN 1 ELSE response.features,
                      route_errors)

\* fetch_traffic_alerts from the return (or the exception) of its route cycle
\* to its own return
PollAlerts ==
  /\ pc \in {"returned", "raised"}
  /\ alerts_returned = None
  /\ IF pc = "raised"
     THEN alerts_returned' =
            Some(CountAndErrors(0, <<"Traffic/Weather alert fetch error: database is locked">>))
     ELSE \E response \in AlertResponses :
            alerts_returned' =
              Some(AlertsAfter(result.errors, get_active_traffic_settings(user_settings).zone_codes,
                               rows, response))
  /\ UNCHANGED <<traffic_errors, settings_vars, incident_vars, caller_vars>>
  /\ UNCHANGED <<cycle_vars, twice_vars, unit_vars>>

\* refresh_data: traffic_count, traffic_errors = await fetch_traffic_alerts()
UnpackResult ==
  /\ alerts_returned # None
  /\ traffic_errors = None
  /\ traffic_errors' = Some(IF alerts_returned[1].kind = "pair"
                            THEN alerts_returned[1].errors
                            ELSE <<"cannot unpack non-iterable int object">>)
  /\ UNCHANGED <<alerts_returned, settings_vars, incident_vars, caller_vars>>
  /\ UNCHANGED <<cycle_vars, twice_vars, unit_vars>>

AlertNext ==
  \/ RouteCycle
  \/ PollAlerts
  \/ UnpackResult

AlertSpec == AlertInit /\ [][AlertNext]_vars

\* the messages of a list
Messages(list) == {list[k] : k \in 1..Len(list)}

\* C27: fetch_traffic_alerts returns a (count, errors) pair on every path, and
\* the pair holds every error message its route cycle reported
C27PairWithRouteErrors ==
  alerts_returned # None =>
    /\ alerts_returned[1].kind = "pair"
    /\ pc = "returned" => Messages(result.errors) \subseteq Messages(alerts_returned[1].errors)

\* the place of a provider call in the order of one iteration
Rank(call) ==
  CASE call.api = "geocode" /\ call.endpoint = "origin" -> 1
    [] call.api = "geocode" /\ call.endpoint = "destination" -> 2
    [] call.api = "routing" -> 3
    [] call.api = "incidents" -> 4
    [] call.api = "zone" /\ call.endpoint = "origin" -> 5
    [] call.api = "zone" /\ call.endpoint = "destination" -> 6

\* the configuration entry a provider call was issued for
IssuedFor(call, route_cfg) ==
  CASE call.api = "geocode" /\ call.endpoint = "origin" -> call.arg = route_cfg.origin
    [] call.api = "geocode" /\ call.endpoint = "destination" -> call.arg = route_cfg.destination
    [] OTHER -> TRUE

\* the names of the entries of a configuration
EntryNames(config) == {config[k].name : k \in 1..Len(config)}

\* C28: the provider calls of an iteration are issued for the entry whose turn
\* it is, after every earlier entry has its outcome, in the order geocode
\* origin, geocode destination, routing, incidents, origin zone, destination
\* zone; no stale row is left in the committed table when they are issued
C28SequentialInOrder ==
  calls # <<>> =>
    /\ idx >= 2 /\ Len(outcomes) = idx - 1
    /\ \A k \in 1..Len(calls) : IssuedFor(calls[k], routes_config[idx - 1])
    /\ \A j, k \in 1..Len(calls) : j < k => Rank(calls[j]) < Rank(calls[k])
    /\ \A k \in 1..Len(rows) : rows[k].name \in EntryNames(routes_config)

\* the second entry of a cycle that deleted a stale row had its calls issued
C28Witness ==
  /\ stale_routes # <<>>
  /\ Len(outcomes) = 2
  /\ Len(calls) >= 2

\* the session's row of the entry processed last
UpdatedRow == SessionRow(working, added, routes_config[idx - 1].name)

\* C29: an updated route whose stored zone is empty had the zone of that
\* endpoint looked up, whatever the resolved coordinates are, and incidents
\* were fetched for it
C29ZonesAndIncidentsLookedUp ==
  Updated =>
    /\ TruthyStr(UpdatedRow.origin_zone) \/ CallsTo("zone", "origin") # {}
    /\ TruthyStr(UpdatedRow.dest_zone) \/ CallsTo("zone", "destination") # {}
    /\ CallsTo("incidents", "route") # {}

\* the outcomes of an entry that is skipped without a message
SilentOutcomes == {"incomplete", "no_routes"}

\* C30 as stated: in every cycle that ends without a fatal error every
\* configured route is either counted or has one message, so that
\* updatedCount + number of errors = number of configured routes
C30CountPlusErrorsIsRoutes ==
  (pc = "returned" /\ result.kind \in {"committed", "skipped"}) =>
    result.count + Len(result.errors) = Len(routes_config)

\* C30 amended: a cycle without a key returns (0, []) whatever is configured;
\* in a cycle that commits, every entry has exactly one outcome: it is counted
\* as updated, or has one message (address unresolved, routing failure), or is
\* skipped without a message (no origin or destination, or a routing answer
\* without routes), so that updatedCount + errors + silent skips = entries
C30EveryEntryHasOneOutcome ==
  /\ (pc = "returned" /\ result.kind = "skipped") =>
       result.count = 0 /\ result.errors = <<>>
  /\ (pc = "returned" /\ result.kind = "committed") =>
       /\ Len(outcomes) = Len(routes_config)
       /\ \A k \in 1..Len(outcomes) :
            outcomes[k] \in {"updated"} \cup ErrorOutcomes \cup SilentOutcomes
       /\ result.count = Cardinality(OutcomesIn({"updated"}))
       /\ Len(result.errors) = Cardinality(OutcomesIn(ErrorOutcomes))
       /\ result.count + Len(result.errors) + Cardinality(OutcomesIn(SilentOutcomes))
            = Len(routes_config)

\* a committed cycle over two entries counted one and skipped the other silently
C30Witness ==
  /\ pc = "returned"
  /\ result.kind = "committed"
  /\ Len(routes_config) = 2
  /\ result.count = 1
  /\ OutcomesIn(SilentOutcomes) # {}

====
